---- MODULE Spec2Model ----
(***************************************************************************)
(* Model of the shared-memory subsystem of support-memory: the memory.json *)
(* document (shared_memory.py), the meeting processor                      *)
(* (transcript_processor.process_meeting), the Fathom webhook receiver     *)
(* (fathom_webhook.fathom_webhook), quick capture                          *)
(* (heartbeat.process_capture) and the Slack listener                     *)
(* (slack_listener.SlackListener.update_memory).                           *)
(*                                                                         *)
(* Text is a sequence of one-character strings, so that len(), strip(),    *)
(* lower() and substring tests are computed as the Python code computes    *)
(* them.  None and '' of a text field are both the empty sequence: the     *)
(* code only ever tests such a field for truthiness.                       *)
(***************************************************************************)
EXTENDS Integers, Sequences, FiniteSets, TLC

VARIABLES
    mem,            \* the document in memory.json (keys -> lists of records)
    today,          \* the day datetime.now() falls on
    steps,          \* number of steps taken so far
    lastOp,         \* name of the step taken last
    arg,            \* the argument of the last call
    ret,            \* what the last operation returned (or that it raised)
    taskReqs,       \* create_task calls made by the last operation, in order
    taskResults,    \* how each of those calls ended: "ok", "none" or "raise"
    hist,           \* history: every record ever appended to each bounded list
    meetings_store, \* the webhook receiver's in-memory cache
    nGenerated,     \* number of "meeting-<timestamp>" ids generated so far
    pc,             \* per process: "idle", or "loaded" between load and save
    loaded,         \* per process: the document it loaded and the call it runs
    missed,         \* history: per process, what others saved since its load
    lastSave,       \* history: who saved last, what it wrote, what it had missed
    entities,       \* the entity store, data/entities.json
    contacted,      \* history: per customer id, the day of its last update_customer
    disk,           \* the characters of memory.json on disk, as JSON tokens
    saver,          \* the save_memory under way: what it still has to write
    channels,       \* Slack: per channel id its messages, newest first
    processed_messages, \* SlackListener.processed_messages
    listener,       \* where run_once is, and what it saw when it started
    calls,          \* history: the update_memory calls scan_channel made
    folders,        \* help-center: per stage folder the ids of its article files
    marked,         \* Slack: the timestamps that carry the memo reaction
    articles,        \* history: the article ids whose file was ever written
    used            \* how many messages, scans and pipeline commands so far

procVars == <<pc, loaded, missed, lastSave>>

slackVars == <<channels, processed_messages, listener, calls, folders, marked, articles, used>>

auxVars == <<entities, contacted, disk, saver, slackVars>>

vars == <<mem, today, steps, lastOp, arg, ret, taskReqs, taskResults, hist,
          meetings_store, nGenerated, pc, loaded, missed, lastSave, entities,
          contacted, disk, saver, channels, processed_messages, listener, calls,
          folders, marked, articles, used>>

-----------------------------------------------------------------------------
(* Bounds of the model *)

MaxSteps == 2       \* operations started in one behaviour

(* Program constants *)

MEETINGS_KEPT == 50         \* mem['meetings'][-50:]
CAPTURES_KEPT == 50         \* mem['captures'][-50:]
OBSERVATIONS_KEPT == 100    \* mem["observations"][-100:]
INBOX_KEPT == 100           \* mem['inbox'][-100:]
MAX_MEETINGS == 100         \* fathom_webhook.MAX_MEETINGS
ACTION_MIN_LEN == 10        \* len(action_text) > 10
ACTION_MAX_LEN == 500       \* len(action_text) < 500, title=action[:500]
SUMMARY_KEPT == 500         \* summary[:500]
CAPTURE_TITLE_LEN == 100    \* item['content'][:100]
CAPTURE_MIN_LINE == 3       \* len(line) < 3
CONTENT_KEPT == 1000        \* raw_text[:1000]
SNIPPET_KEPT == 200         \* raw_text[:200]

-----------------------------------------------------------------------------
(* Python string and list primitives *)

\* s[-n:] for n > 0
LastN(s, n) == IF Len(s) <= n THEN s ELSE SubSeq(s, Len(s) - n + 1, Len(s))

\* s[:n]
FirstN(s, n) == IF Len(s) <= n THEN s ELSE SubSeq(s, 1, n)

\* sub in s
Contains(sub, s) ==
    \E i \in 0..(Len(s) - Len(sub)) : SubSeq(s, i + 1, i + Len(sub)) = sub

\* s.startswith(p)
StartsWith(s, p) == Len(s) >= Len(p) /\ SubSeq(s, 1, Len(p)) = p



\* s.lower()
Lower(s) ==
    LET LowerChar(c) ==
            LET UpperCase == <<"A","B","C","D","E","F","G","H","I","J","K","L","M",
                               "N","O","P","Q","R","S","T","U","V","W","X","Y","Z">>
            IN
                LET LowerCase == <<"a","b","c","d","e","f","g","h","i","j","k","l","m",
                                   "n","o","p","q","r","s","t","u","v","w","x","y","z">>
                IN
                    IF \E i \in 1..26 : UpperCase[i] = c
                    THEN LowerCase[CHOOSE i \in 1..26 : UpperCase[i] = c]
                    ELSE c
    IN
        [i \in 1..Len(s) |-> LowerChar(s[i])]

IsSpace(c) == c \in {" ", "\n", "\t"}

\* s.strip()
Strip(s) ==
    IF \A i \in 1..Len(s) : IsSpace(s[i]) THEN <<>>
    ELSE LET first == CHOOSE i \in 1..Len(s) :
                          ~IsSpace(s[i]) /\ \A j \in 1..(i-1) : IsSpace(s[j])
             last  == CHOOSE i \in 1..Len(s) :
                          ~IsSpace(s[i]) /\ \A j \in (i+1)..Len(s) : IsSpace(s[j])
         IN SubSeq(s, first, last)

\* any(n == s for n in names): equality in place of containment
AnyEqual(names, s) == \E i \in 1..Len(names) : names[i] = s

\* any(n in s for n in names)
AnyIn(names, s) == \E i \in 1..Len(names) : Contains(names[i], s)


-----------------------------------------------------------------------------
(* The memory document *)

HasKey(doc, k) == k \in DOMAIN doc

\* doc[k] = v, adding the key when it is missing
SetKey(doc, k, v) == [x \in (DOMAIN doc) \cup {k} |-> IF x = k THEN v ELSE doc[x]]

\* mem.get(k, [])
GetList(doc, k) == IF HasKey(doc, k) THEN doc[k] ELSE <<>>

BoundedKeys == {"meetings", "captures", "observations", "inbox"}

Kept(k) ==
    CASE k = "meetings" -> MEETINGS_KEPT
      [] k = "captures" -> CAPTURES_KEPT
      [] k = "observations" -> OBSERVATIONS_KEPT
      [] k = "inbox" -> INBOX_KEPT

\* s[i:] for a 1-based i
From(s, i) == SubSeq(s, i, Len(s))

\* list(set(values)): the values once each, in an order the set decides
Orderings(values) ==
    LET S == {values[i] : i \in 1..Len(values)}
    IN {s \in [1..Cardinality(S) -> S] :
            \A i, j \in 1..Cardinality(S) : i # j => s[i] # s[j]}

NoMatch == [found |-> FALSE]

\* the match of `pattern` that starts at position i of text: group(1) and
\* the position after the match. A pattern is a run of alternatives, each
\* followed by \s+ ("s"), [:\s]+ ("cs") or one blank ("sp"), then (.+?) and
\* its end. Alternatives are tried in order and a separator gives characters
\* back when the rest does not match.
MatchAt(pattern, text, i) ==
    LET RECURSIVE rest(_, _)
        rest(k, j) ==
            IF k > Len(pattern.parts)
            THEN LET ends == {e \in j..Len(text) :
                                /\ \A x \in j..e : text[x] # "\n"
                                /\ \/ e = Len(text)
                                   \/ text[e + 1] \in pattern.term
                                   \/ e + 1 = Len(text) /\ text[e + 1] = "\n"}
                 IN IF ends = {} THEN NoMatch
                    ELSE LET e == CHOOSE e \in ends : \A f \in ends : e <= f
                         IN [found |-> TRUE, group1 |-> SubSeq(text, j, e),
                             end |-> IF e < Len(text) /\ text[e + 1] \in pattern.term
                                     THEN e + 2 ELSE e + 1]
            ELSE LET part == pattern.parts[k]
                     sepchar(c) == IF part.sep = "sp" THEN c = " "
                                   ELSE IsSpace(c) \/ (part.sep = "cs" /\ c = ":")
                     runs(p) == {n \in 1..(Len(text) - p + 1) :
                                    /\ part.sep = "sp" => n = 1
                                    /\ \A x \in p..(p + n - 1) : sepchar(text[x])
                                    /\ rest(k + 1, p + n).found}
                     viable(a) == /\ StartsWith(From(text, j), part.alts[a])
                                  /\ runs(j + Len(part.alts[a])) # {}
                 IN IF \E a \in 1..Len(part.alts) : viable(a)
                    THEN LET a == CHOOSE a \in 1..Len(part.alts) :
                                     viable(a) /\ \A b \in 1..(a - 1) : ~viable(b)
                             p == j + Len(part.alts[a])
                             n == CHOOSE n \in runs(p) : \A o \in runs(p) : o <= n
                         IN rest(k + 1, p + n)
                    ELSE NoMatch
    IN rest(1, i)

\* [match.group(1).strip() for match in re.finditer(pattern, text)] from
\* position pos on
RECURSIVE FindAll(_, _, _)
FindAll(pattern, text, pos) ==
    LET after(found) == <<Strip(found.group1)>> \o FindAll(pattern, text, found.end)
        leftmost(hits) ==
            IF hits = {} THEN <<>>
            ELSE after(MatchAt(pattern, text, CHOOSE i \in hits : \A j \in hits : i <= j))
    IN leftmost({i \in pos..Len(text) : MatchAt(pattern, text, i).found})

-----------------------------------------------------------------------------
(* transcript_processor.extract_team_wellness *)

DIRECT_REPORTS ==
    [christian |-> <<<<"c","h","r","i","s","t","i","a","n">>, <<"c","h","r","i","s","t","i","a","n"," ","s","t","a","l","e","y">>>>,
     hannah |-> <<<<"h","a","n","n","a","h">>, <<"h","a","n","n","a","h"," ","h","o","l","b","r","o","o","k">>>>]



\* re.findall(pattern, text, re.IGNORECASE) for a pattern \b(a|b|...)\b, from
\* position i on: alts are the alternatives, tried in order at each position
RECURSIVE findall(_, _, _)
findall(alts, text, i) ==
    LET IsWord(c) == c \in {"a","b","c","d","e","f","g","h","i","j","k","l","m","n","o","p",
                            "q","r","s","t","u","v","w","x","y","z","_",
                            "0","1","2","3","4","5","6","7","8","9"}
        boundary(j) == j < 1 \/ j > Len(text) \/ ~IsWord(text[j])
        fits(a) == /\ StartsWith(From(text, i), alts[a])
                   /\ boundary(i + Len(alts[a]))
    IN IF i > Len(text) THEN <<>>
       ELSE IF boundary(i - 1) /\ \E a \in 1..Len(alts) : fits(a)
       THEN LET a == CHOOSE a \in 1..Len(alts) :
                         fits(a) /\ \A b \in 1..(a - 1) : ~fits(b)
            IN <<alts[a]>> \o findall(alts, text, i + Len(alts[a]))
       ELSE findall(alts, text, i + 1)

\* the signals extract_team_wellness finds in the lowered transcript: they
\* are searched in the whole text, whoever the person is
WellnessOf(text) ==
    LET POSITIVE_PATTERNS ==
            <<<<<<"e","x","c","i","t","e","d">>, <<"l","o","o","k","i","n","g"," ","f","o","r","w","a","r","d">>, <<"e","n","j","o","y","i","n","g">>, <<"p","r","o","u","d">>>>,
              <<<<"g","o","o","d"," ","p","r","o","g","r","e","s","s">>, <<"o","n"," ","t","r","a","c","k">>, <<"a","h","e","a","d"," ","o","f">>, <<"n","a","i","l","e","d">>, <<"c","r","u","s","h","e","d">>>>,
              <<<<"f","e","e","l","i","n","g"," ","g","o","o","d">>, <<"g","o","i","n","g"," ","w","e","l","l">>, <<"t","h","i","n","g","s"," ","a","r","e"," ","g","o","o","d">>>>>>
    IN
            \* the alternatives of each pattern \b(...)\b
        LET STRESS_PATTERNS ==
                <<<<<<"o","v","e","r","w","h","e","l","m","e","d">>, <<"s","w","a","m","p","e","d">>, <<"d","r","o","w","n","i","n","g">>, <<"s","l","a","m","m","e","d">>, <<"b","u","r","i","e","d">>>>,
                  <<<<"f","r","u","s","t","r","a","t","e","d">>, <<"a","n","n","o","y","i","n","g">>, <<"a","n","n","o","y","e","d">>, <<"s","t","r","u","g","g","l","i","n","g">>>>,
                  <<<<"w","o","r","r","i","e","d">>, <<"c","o","n","c","e","r","n","e","d">>, <<"a","n","x","i","o","u","s">>, <<"s","t","r","e","s","s","e","d">>>>,
                  <<<<"c","a","n","'","t"," ","k","e","e","p"," ","u","p">>, <<"t","o","o"," ","m","u","c","h">>, <<"f","a","l","l","i","n","g"," ","b","e","h","i","n","d">>, <<"b","e","h","i","n","d"," ","o","n">>>>,
                  <<<<"e","x","h","a","u","s","t","e","d">>, <<"t","i","r","e","d">>, <<"b","u","r","n","t"," ","o","u","t">>, <<"b","u","r","n","i","n","g"," ","o","u","t">>>>>>
        IN
            LET RECURSIVE extend(_, _)
                extend(patterns, k) ==
                    IF k > Len(patterns) THEN <<>>
                    ELSE findall(patterns[k], text, 1) \o extend(patterns, k + 1)
                blocker_patterns ==
                    <<[parts |-> <<[alts |-> <<<<"i","'","m">>, <<"i"," ","a","m">>>>, sep |-> "sp"],
                                  [alts |-> <<<<"b","l","o","c","k","e","d">>, <<"w","a","i","t","i","n","g">>>>, sep |-> "sp"],
                                  [alts |-> <<<<"o","n">>>>, sep |-> "sp"]>>,
                       term |-> {"."}],
                      [parts |-> <<[alts |-> <<<<"c","a","n","'","t">>, <<"c","a","n","n","o","t">>>>, sep |-> "sp"],
                                  [alts |-> <<<<"p","r","o","c","e","e","d">>, <<"m","o","v","e"," ","f","o","r","w","a","r","d">>>>, sep |-> "sp"],
                                  [alts |-> <<<<"u","n","t","i","l">>, <<"w","i","t","h","o","u","t">>>>, sep |-> "sp"]>>,
                       term |-> {"."}]>>
                clipped(found) == [i \in 1..Len(found) |-> FirstN(found[i], 100)]
                raised(k) == clipped(FindAll(blocker_patterns[k], text, 1))
                signals(stress, positive) ==
                    [stress |-> stress,
                     positive |-> positive,
                     blockers |-> raised(1) \o raised(2),
                     sentiment |-> IF Len(stress) > Len(positive) + 2 THEN "stressed"
                                   ELSE IF Len(positive) > Len(stress) + 2 THEN "positive"
                                   ELSE "neutral"]
            IN signals(extend(STRESS_PATTERNS, 1), extend(POSITIVE_PATTERNS, 1))

\* the persons of the roster that line 217 finds in the meeting
InMeeting(transcript, attendees) ==
    LET text == Lower(transcript)
        attendees_lower == [i \in 1..Len(attendees) |-> Lower(attendees[i])]
    IN {person_key \in DOMAIN DIRECT_REPORTS :
           \E n \in 1..Len(DIRECT_REPORTS[person_key]) :
               LET name == DIRECT_REPORTS[person_key][n]
               IN AnyEqual(attendees_lower, name) \/ Contains(name, FirstN(text, 500))}

\* extract_team_wellness that leaves out a person who is neutral and raised
\* no blocker, as log_team_wellness_from_meeting does for its log
extract_team_wellness_notable(transcript, attendees) ==
    IF transcript = <<>> THEN <<>>
    ELSE LET signals == WellnessOf(Lower(transcript))
         IN [person_key \in {p \in InMeeting(transcript, attendees) :
                                signals.sentiment # "neutral" \/ signals.blockers # <<>>}
                |-> signals]

\* extract_team_wellness(transcript, attendees): {} is the empty function
extract_team_wellness(transcript, attendees) ==
    IF transcript = <<>> THEN <<>>
    ELSE [person_key \in InMeeting(transcript, attendees) |-> WellnessOf(Lower(transcript))]

-----------------------------------------------------------------------------
(* transcript_processor.process_meeting: the signals *)

my_names == << <<"l","u","c","a","s">>,
               <<"l","u","k","e">>,
               <<"l","u","c","a","s"," ","w","i","l","l","e","t","t">>,
               <<"l","u","c","a","s","w","i","l","l","e","t","t">> >>

my_emails == << <<"l","u","c","a","s","@","v","i","s","i","t","i","n","g",
                  "m","e","d","i","a",".","c","o","m">>,
                <<"l","u","c","a","s",".","w","i","l","l","e","t","t","@">> >>

speaker == <<"s","p","e","a","k","e","r">>

EmptySignals ==
    [actions_for_me |-> <<>>, decisions |-> <<>>, commitments |-> <<>>,
     follow_ups |-> <<>>, deadlines |-> <<>>, blockers |-> <<>>,
     customers_mentioned |-> <<>>, projects_mentioned |-> <<>>]

\* item.get('text') or item.get('content') or item.get('description')
ItemText(item) ==
    IF item.text # <<>> THEN item.text
    ELSE IF item.content # <<>> THEN item.content
    ELSE item.description

\* action_text of one element of action_items (<<>> when it stays None)
ActionText(item) ==
    IF item.kind = "str" /\ Len(item.text) > ACTION_MIN_LEN THEN item.text
    ELSE IF item.kind = "dict" THEN ItemText(item)
    ELSE <<>>

\* is_mine with a plain string treated like an object without assignee
IsMineAssignedOnly(item) ==
    IF item.kind = "dict" /\ item.hasAssignee
    THEN \/ AnyIn(my_names, Lower(item.name))
         \/ AnyIn(my_emails, Lower(item.email))
    ELSE FALSE

\* is_mine of one element of action_items
IsMine(item) ==
    IF item.kind = "str" /\ Len(item.text) > ACTION_MIN_LEN THEN TRUE
    ELSE IF item.kind = "dict" /\ item.hasAssignee
         THEN \/ AnyIn(my_names, Lower(item.name))
              \/ AnyIn(my_emails, Lower(item.email))
    ELSE FALSE

\* the filter of lines 365-366
Accepted(item) ==
    /\ IsMine(item)
    /\ ActionText(item) # <<>>
    /\ Len(ActionText(item)) > ACTION_MIN_LEN
    /\ Len(ActionText(item)) < ACTION_MAX_LEN
    /\ ~Contains(<<"{">>, ActionText(item))
    /\ ~Contains(speaker, Lower(ActionText(item)))

RECURSIVE FollowUpsOf(_)
FollowUpsOf(items) ==
    IF items = <<>> THEN <<>>
    ELSE LET rest == FollowUpsOf(Tail(items))
         IN IF Accepted(Head(items))
            THEN <<Strip(ActionText(Head(items)))>> \o rest
            ELSE rest

\* signals as process_meeting builds them from action_items
MeetingSignals(fathom_actions) ==
    [EmptySignals EXCEPT !.follow_ups =
        IF fathom_actions.isList /\ fathom_actions.items # <<>>
        THEN FollowUpsOf(fathom_actions.items)
        ELSE <<>>]

-----------------------------------------------------------------------------
(* google_tasks.create_task, as seen by its callers *)

TaskOutcomes == {"ok", "none", "raise"}

\* The calls a loop over `requests` makes when the k-th call ends as
\* outcomes[k]: a call that raises is the last one made.
RECURSIVE CallsMade(_, _)
CallsMade(requests, outcomes) ==
    IF requests = <<>> THEN <<>>
    ELSE IF Head(outcomes) = "raise" THEN <<Head(requests)>>
    ELSE <<Head(requests)>> \o CallsMade(Tail(requests), Tail(outcomes))

\* lines 403-413: one request per action, follow-up and deadline
MeetingTaskRequests(rec) ==
    LET action_items == rec.signals.actions_for_me \o rec.signals.follow_ups
    IN [i \in 1..Len(action_items) |->
            [title |-> FirstN(action_items[i], ACTION_MAX_LEN),
             notes |-> <<"From meeting", rec.title, rec.date>>]]
       \o
       [i \in 1..Len(rec.signals.deadlines) |->
            [title |-> FirstN(rec.signals.deadlines[i], ACTION_MAX_LEN),
             notes |-> <<"Deadline from", rec.title, rec.date>>]]

-----------------------------------------------------------------------------
(* transcript_processor.process_meeting: the store *)

InboxEntry(type, rec, content) ==
    [type |-> type, from_meeting |-> rec.title, date |-> rec.date,
     content |-> content, status |-> "open"]

\* the inbox entries of lines 422-447, in the order they are appended
MeetingInboxEntries(rec) ==
    [i \in 1..Len(rec.signals.actions_for_me) |->
        InboxEntry("action", rec, rec.signals.actions_for_me[i])]
    \o [i \in 1..Len(rec.signals.follow_ups) |->
        InboxEntry("action", rec, rec.signals.follow_ups[i])]
    \o [i \in 1..Len(rec.signals.deadlines) |->
        InboxEntry("deadline", rec, rec.signals.deadlines[i])]

\* the append of line 396 without the trim of lines 397-398
StoreMeetingUntrimmed(doc, rec) ==
    SetKey(doc, "meetings", Append(GetList(doc, "meetings"), rec))

\* lines 392-398
StoreMeeting(doc, rec) ==
    SetKey(doc, "meetings",
           LastN(Append(GetList(doc, "meetings"), rec), MEETINGS_KEPT))

\* lines 418-449 with every entry already stored put back to open
StoreMeetingInboxReopening(doc, rec) ==
    LET inbox == GetList(doc, "inbox")
        reopened == [i \in 1..Len(inbox) |-> [inbox[i] EXCEPT !.status = "open"]]
    IN IF \/ rec.signals.actions_for_me # <<>> \/ rec.signals.follow_ups # <<>>
          \/ rec.signals.deadlines # <<>> \/ rec.signals.blockers # <<>>
       THEN SetKey(doc, "inbox",
                   LastN(reopened \o MeetingInboxEntries(rec), INBOX_KEPT))
       ELSE doc

\* lines 418-449
StoreMeetingInbox(doc, rec) ==
    IF \/ rec.signals.actions_for_me # <<>> \/ rec.signals.follow_ups # <<>>
       \/ rec.signals.deadlines # <<>> \/ rec.signals.blockers # <<>>
    THEN SetKey(doc, "inbox",
                LastN(GetList(doc, "inbox") \o MeetingInboxEntries(rec), INBOX_KEPT))
    ELSE doc

\* the record appended a second time
MeetingDocTwice(doc, rec) ==
    StoreMeetingInbox(StoreMeeting(StoreMeeting(doc, rec), rec), rec)

\* the document process_meeting saves, from the one it loaded
MeetingDoc(doc, rec) == StoreMeetingInbox(StoreMeeting(doc, rec), rec)

-----------------------------------------------------------------------------
(* heartbeat.parse_capture *)



RECURSIVE SplitFrom(_, _, _)
SplitFrom(text, i, cur) ==
        \* re.split(r'\n|<bullets>|-(?=\s)', text): is text[i] a delimiter
    LET IsDelimiter ==
                \* the bullet glyphs of the split pattern, one token per glyph
            LET Bullets == {"U+2022", "U+25E6", "U+25AA", "U+25BA"}
            IN
                \/ text[i] = "\n"
                \/ text[i] \in Bullets
                \/ text[i] = "-" /\ i < Len(text) /\ IsSpace(text[i + 1])
    IN
        IF i > Len(text) THEN <<cur>>
        ELSE IF IsDelimiter THEN <<cur>> \o SplitFrom(text, i + 1, <<>>)
        ELSE SplitFrom(text, i + 1, Append(cur, text[i]))


TriggerWords ==
    << <<"c","a","p","t","u","r","e",":">>,
       <<"n","o","t","e","s",":">>,
       <<"b","r","a","i","n"," ","d","u","m","p",":">>,
       <<"p","a","p","e","r"," ","n","o","t","e","s",":">> >>

TaskVerbs ==
    << <<"t","o","d","o">>,
       <<"t","a","s","k">>,
       <<"d","o">>,
       <<"n","e","e","d"," ","t","o">>,
       <<"m","u","s","t">>,
       <<"s","h","o","u","l","d">>,
       <<"f","o","l","l","o","w"," ","u","p">>,
       <<"s","c","h","e","d","u","l","e">>,
       <<"c","a","l","l">>,
       <<"e","m","a","i","l">>,
       <<"s","e","n","d">>,
       <<"r","e","v","i","e","w">>,
       <<"c","h","e","c","k">>,
       <<"u","p","d","a","t","e">>,
       <<"c","r","e","a","t","e">>,
       <<"b","u","i","l","d">>,
       <<"f","i","x">>,
       <<"f","i","n","i","s","h">> >>



IdeaWords ==
    << <<"i","d","e","a">>,
       <<"m","a","y","b","e">>,
       <<"c","o","u","l","d">>,
       <<"w","h","a","t"," ","i","f">>,
       <<"c","o","n","s","i","d","e","r">>,
       <<"e","x","p","l","o","r","e">>,
       <<"l","o","o","k"," ","i","n","t","o">>,
       <<"r","e","s","e","a","r","c","h">> >>



IsDigit(c) == c \in {"0","1","2","3","4","5","6","7","8","9"}

\* group(2) of (w1|w2|..)\s+(d1|d2|..|\d{1,2}[/-]\d{1,2}) matched at position
\* i of s, <<>> when the pattern does not match there
PhraseAt(s, i, keywords, days) ==
        \* the text \d{1,2}[/-]\d{1,2} matches at the start of s (<<>> when none):
        \* both digit groups are greedy
    LET NumericDate(r) ==
            LET n1 == IF Len(r) >= 2 /\ IsDigit(r[1]) /\ IsDigit(r[2]) THEN 2
                      ELSE IF Len(r) >= 1 /\ IsDigit(r[1]) THEN 1 ELSE 0
                try(n) ==
                    IF n >= 1 /\ Len(r) >= n + 2 /\ r[n + 1] \in {"/", "-"} /\ IsDigit(r[n + 2])
                    THEN IF Len(r) >= n + 3 /\ IsDigit(r[n + 3])
                         THEN SubSeq(r, 1, n + 3) ELSE SubSeq(r, 1, n + 2)
                    ELSE <<>>
            IN IF try(n1) # <<>> THEN try(n1) ELSE try(n1 - 1)
    IN
        IF \E k \in 1..Len(keywords) : StartsWith(From(s, i), keywords[k])
        THEN LET k == CHOOSE k \in 1..Len(keywords) : StartsWith(From(s, i), keywords[k])
                 a == i + Len(keywords[k])
                 spaces == {n \in 1..(Len(s) - a + 1) :
                                \A j \in a..(a + n - 1) : IsSpace(s[j])}
             IN IF spaces = {} THEN <<>>
                ELSE LET n == CHOOSE n \in spaces : \A m \in spaces : m <= n
                         rest == From(s, a + n)
                     IN IF \E d \in 1..Len(days) : StartsWith(rest, days[d])
                        THEN days[CHOOSE d \in 1..Len(days) :
                                      /\ StartsWith(rest, days[d])
                                      /\ \A e \in 1..(d - 1) : ~StartsWith(rest, days[e])]
                        ELSE NumericDate(rest)
        ELSE <<>>

\* re.search of that pattern: group(2) of the leftmost match, <<>> when none
PhraseSearch(s, keywords, days) ==
    LET hits == {i \in 1..Len(s) : PhraseAt(s, i, keywords, days) # <<>>}
    IN IF hits = {} THEN <<>>
       ELSE PhraseAt(s, CHOOSE i \in hits : \A j \in hits : i <= j, keywords, days)


\* the two task_patterns
TaskMatch(low) ==
        \* r'^(todo|task|...)[\s:]+'
    LET TaskVerbMatch ==
            \E k \in 1..Len(TaskVerbs) :
                /\ StartsWith(low, TaskVerbs[k])
                /\ Len(low) > Len(TaskVerbs[k])
                /\ LET c == low[Len(TaskVerbs[k]) + 1] IN IsSpace(c) \/ c = ":"
    IN
        LET TaskDays ==
                << <<"m","o","n","d","a","y">>,
                   <<"t","u","e","s","d","a","y">>,
                   <<"w","e","d","n","e","s","d","a","y">>,
                   <<"t","h","u","r","s","d","a","y">>,
                   <<"f","r","i","d","a","y">>,
                   <<"t","o","m","o","r","r","o","w">>,
                   <<"e","o","d">>,
                   <<"e","o","w">>,
                   <<"n","e","x","t"," ","w","e","e","k">> >>
        IN
            LET DeadlineWords ==
                    << <<"b","y">>,
                       <<"d","u","e">>,
                       <<"b","e","f","o","r","e">>,
                       <<"d","e","a","d","l","i","n","e">> >>
            IN
                TaskVerbMatch \/ PhraseSearch(low, DeadlineWords, TaskDays) # <<>>

\* the idea_patterns
IdeaMatch(low) == \E k \in 1..Len(IdeaWords) : StartsWith(low, IdeaWords[k])

\* the type a kept line gets: the idea test runs after the task test
LineType(line) ==
    LET low == Lower(line)
        afterTask == IF TaskMatch(low) THEN "task" ELSE "note"
    IN IF IdeaMatch(low) THEN "idea" ELSE afterTask

\* the item built for one kept line
CaptureItem(line) ==
    LET DueDays ==
            << <<"m","o","n","d","a","y">>,
               <<"t","u","e","s","d","a","y">>,
               <<"w","e","d","n","e","s","d","a","y">>,
               <<"t","h","u","r","s","d","a","y">>,
               <<"f","r","i","d","a","y">>,
               <<"t","o","m","o","r","r","o","w">>,
               <<"e","o","d">>,
               <<"e","o","w">> >>
    IN
        LET DueWords ==
                << <<"b","y">>,
                   <<"d","u","e">>,
                   <<"b","e","f","o","r","e">> >>
        IN
            LET base == [raw |-> line, type |-> LineType(line), content |-> line]
                due == PhraseSearch(Lower(line), DueWords, DueDays)
            IN IF due # <<>> THEN SetKey(base, "due_hint", due) ELSE base

\* lines 44-49: is the stripped line kept
KeptLine(line) ==
    /\ line # <<>>
    /\ Len(line) >= CAPTURE_MIN_LINE
    /\ \A k \in 1..Len(TriggerWords) : Lower(line) # TriggerWords[k]

RECURSIVE ItemsOf(_)
ItemsOf(lines) ==
    IF lines = <<>> THEN <<>>
    ELSE LET line == Strip(Head(lines))
         IN (IF KeptLine(line) THEN <<CaptureItem(line)>> ELSE <<>>)
            \o ItemsOf(Tail(lines))

parse_capture(text) ==
    LET SplitCapture == SplitFrom(text, 1, <<>>)
    IN
        ItemsOf(SplitCapture)

-----------------------------------------------------------------------------
(* heartbeat.process_capture *)

\* the create_task requests of lines 103-109, one per task-typed item
CaptureTaskRequests(items, day) ==
    LET tasks == SelectSeq(items, LAMBDA it : it.type = "task")
    IN [i \in 1..Len(tasks) |->
            [title |-> FirstN(tasks[i].content, CAPTURE_TITLE_LEN),
             notes |-> <<"Captured from paper notes on", day>>]]

\* items as the loop of lines 103-118 leaves them: the k-th task-typed item
\* gets google_task_id when the k-th create_task call returned a task
RECURSIVE CapturedItems(_, _, _)
CapturedItems(items, outcomes, k) ==
    IF items = <<>> THEN <<>>
    ELSE LET it == Head(items)
         IN IF it.type = "task"
            THEN <<IF outcomes[k] = "ok"
                   THEN SetKey(it, "google_task_id", <<"task", k>>)
                   ELSE it>>
                 \o CapturedItems(Tail(items), outcomes, k + 1)
            ELSE <<it>> \o CapturedItems(Tail(items), outcomes, k)


\* lines 97-101 and 118
CaptureEntry(items, user_id, day) ==
    [date |-> day, user |-> user_id, items |-> items]
\* a store of the capture that also files its items in the inbox
StoreCaptureWithInbox(doc, entry) ==
    SetKey(SetKey(doc, "captures",
                  LastN(Append(GetList(doc, "captures"), entry), CAPTURES_KEPT)),
           "inbox", LastN(GetList(doc, "inbox") \o entry.items, INBOX_KEPT))

\* lines 94-95 and 121-122
StoreCapture(doc, entry) ==
    SetKey(doc, "captures",
           LastN(Append(GetList(doc, "captures"), entry), CAPTURES_KEPT))

-----------------------------------------------------------------------------
(* slack_listener.SlackListener.update_memory *)



\* desc_parts of create_inbox_item, before ' | '.join
InboxDescParts(parsed) ==
    (IF parsed.people # <<>> THEN <<<<"With", parsed.people>>>> ELSE <<>>)
    \o (IF parsed.topics # <<>> THEN <<<<"Topics", FirstN(parsed.topics, 3)>>>> ELSE <<>>)
    \o (IF parsed.duration_minutes # 0
        THEN <<<<"Duration", parsed.duration_minutes>>>> ELSE <<>>)

\* create_inbox_item writing the status the meeting entries carry
create_inbox_item_open(parsed, day) ==
    IF ~parsed.has_meeting THEN <<>>
    ELSE [type |-> "meeting",
          date_added |-> day,
          meeting_date |-> parsed.meeting_date,
          meeting_date_text |-> parsed.meeting_date_text,
          people |-> parsed.people,
          topics |-> parsed.topics,
          content |-> IF InboxDescParts(parsed) # <<>> THEN InboxDescParts(parsed)
                      ELSE <<FirstN(parsed.raw_text, 100)>>,
          status |-> "open",
          source |-> "curated"]

\* curated_parser.create_inbox_item; <<>> stands for None
create_inbox_item(parsed, day) ==
    IF ~parsed.has_meeting THEN <<>>
    ELSE [type |-> "meeting",
          date_added |-> day,
          meeting_date |-> parsed.meeting_date,
          meeting_date_text |-> parsed.meeting_date_text,
          people |-> parsed.people,
          topics |-> parsed.topics,
          content |-> IF InboxDescParts(parsed) # <<>> THEN InboxDescParts(parsed)
                      ELSE <<FirstN(parsed.raw_text, 100)>>,
          status |-> IF parsed.is_scheduled THEN "scheduled" ELSE "pending",
          source |-> "curated"]

\* lines 182-187: is create_event called (existing is what
\* check_meeting_scheduled returned: "none", "same_date" or "other_date")
WantsEvent(parsed, existing) ==
    /\ parsed.is_scheduled
    /\ parsed.meeting_date # <<>>
    /\ parsed.people # <<>>
    /\ existing # "same_date"

\* does check_meeting_scheduled get called
ChecksCalendar(parsed) ==
    /\ parsed.has_meeting
    /\ parsed.is_scheduled /\ parsed.meeting_date # <<>> /\ parsed.people # <<>>

\* the observation of lines 148-170 and 212
Observation(insights, raw_text, is_curated, parsed, day) ==
        \* raw_text[:n] + "..." if len(raw_text) > n else raw_text
    LET Shorten(t, n) ==
            IF Len(t) > n THEN FirstN(t, n) \o <<".", ".", ".">> ELSE t
    IN
        LET base == [date |-> day, time |-> "HH:MM",
                     channel |-> insights.channel,
                     customers |-> insights.customers_mentioned,
                     projects |-> insights.projects_mentioned,
                     themes |-> insights.themes]
            curated == SetKey(SetKey(base, "curated", TRUE),
                              "content", Shorten(raw_text, CONTENT_KEPT))
        IN IF ~is_curated THEN SetKey(base, "snippet", Shorten(raw_text, SNIPPET_KEPT))
           ELSE IF parsed.has_meeting
                THEN SetKey(curated, "parsed",
                            [meeting_date |-> parsed.meeting_date,
                             people |-> parsed.people,
                             topics |-> FirstN(parsed.topics, 3),
                             is_scheduled |-> parsed.is_scheduled])
                ELSE curated

\* the inbox item as it is stored: line 208 sets calendar_created on the
\* same dict after it was appended
StoredInboxItem(parsed, day, existing, event) ==
    IF WantsEvent(parsed, existing) /\ event = "ok"
    THEN SetKey(create_inbox_item(parsed, day), "calendar_created", TRUE)
    ELSE create_inbox_item(parsed, day)
\* lines 174-178 without the [-100:] of line 178
StoreCuratedInboxUntrimmed(doc, item) ==
    SetKey(doc, "inbox", Append(GetList(doc, "inbox"), item))

\* lines 174-178
StoreCuratedInbox(doc, item) ==
    SetKey(doc, "inbox", LastN(Append(GetList(doc, "inbox"), item), INBOX_KEPT))

\* lines 145-146 and 214-217 with [:100] in place of [-100:]
StoreObservationKeepOldest(doc, obs) ==
    SetKey(doc, "observations",
           FirstN(Append(GetList(doc, "observations"), obs), OBSERVATIONS_KEPT))

\* lines 145-146 and 214-217
StoreObservation(doc, obs) ==
    SetKey(doc, "observations",
           LastN(Append(GetList(doc, "observations"), obs), OBSERVATIONS_KEPT))

\* the document update_memory saves, from the one it loaded
ObservationDoc(doc, insights, raw_text, is_curated, parsed, day, existing, event) ==
    LET withInbox ==
            IF is_curated /\ parsed.has_meeting
            THEN StoreCuratedInbox(doc, StoredInboxItem(parsed, day, existing, event))
            ELSE doc
    IN StoreObservation(withInbox,
                        Observation(insights, raw_text, is_curated, parsed, day))

-----------------------------------------------------------------------------
(* Inputs *)











CaptureNote ==
    <<"b","u","y"," ","m","i","l","k">>


SlackBooked ==
    <<"Q","u","i","c","k"," ","c","a","l","l"," ","w","i","t","h"," ","@",
      "g","i","n","o"," ","t","o","m","o","r","r","o","w",","," ","i","t",
      " ","i","s"," ","b","o","o","k","e","d">>

SlackSync ==
    <<"C","a","n"," ","w","e"," ","s","y","n","c"," ","r","e",":"," ","b",
      "e","t","a"," ","r","o","l","l","o","u","t">>

SlackPilot ==
    <<"F","Y","I"," ","t","h","e"," ","p","i","l","o","t"," ","s","l","i",
      "p","p","e","d">>




\* values of action_items
ActionItemInputs ==
        \* elements of action_items: a plain string, or an object whose text,
        \* content, description and assignee name and email may each be missing
    LET StrItem(text) ==
            [kind |-> "str", text |-> text, content |-> <<>>, description |-> <<>>,
             hasAssignee |-> FALSE, name |-> <<>>, email |-> <<>>]
    IN
        LET DictItem(text, hasAssignee, name, email) ==
                [kind |-> "dict", text |-> text, content |-> <<>>, description |-> <<>>,
                 hasAssignee |-> hasAssignee, name |-> name, email |-> email]
        IN
            LET EmailLucas ==
                    <<"L","u","c","a","s",".","W","i","l","l","e","t","t","@","e","x","a",
                      "m","p","l","e",".","c","o","m">>
            IN
                LET TxtShort ==
                        <<"C","a","l","l"," ","M","i","k","e">>
                IN
                    LET TxtContract ==
                            <<"S","e","n","d"," ","t","h","e"," ","c","o","n","t","r","a","c","t">>
                    IN
                        LET NameLucas ==
                                <<"L","u","c","a","s"," ","W","i","l","l","e","t","t">>
                        IN
                            LET NameHannah ==
                                    <<"H","a","n","n","a","h"," ","H","o","l","b","r","o","o","k">>
                            IN
                                LET TxtTail ==
                                        <<"S","e","n","d"," ","t","h","e"," ","c","o","n","t","r","a","c","t","}">>
                                IN
                                    LET TxtSpeaker ==
                                            <<"S","p","e","a","k","e","r"," ","2"," ","o","w","e","s"," ","a"," ",
                                              "r","e","p","l","y">>
                                    IN
                                        LET TxtBrace ==
                                                <<"{","s","p","e","a","k","e","r","_","i","d",":"," ","1","}"," ","r",
                                                  "e","c","a","p">>
                                        IN
                                            LET TxtPadded ==
                                                    <<" "," ","R","e","v","i","e","w"," ","t","h","e"," ","Q","3"," ","p",
                                                      "l","a","n"," ">>
                                            IN
                                                [none     |-> [isList |-> TRUE, items |-> <<>>],
                                                 mine     |-> [isList |-> TRUE,
                                                               items |-> <<DictItem(TxtContract, TRUE, NameLucas, <<>>)>>],
                                                 mixed    |-> [isList |-> TRUE,
                                                               items |-> <<StrItem(TxtPadded),
                                                                           DictItem(TxtContract, TRUE, NameHannah, <<>>)>>],
                                                 twice    |-> [isList |-> TRUE,
                                                               items |-> <<DictItem(TxtContract, TRUE, NameLucas, <<>>),
                                                                           DictItem(TxtContract, TRUE, <<>>, EmailLucas)>>],
                                                 rejected |-> [isList |-> TRUE,
                                                               items |-> <<StrItem(TxtBrace), StrItem(TxtSpeaker), StrItem(TxtShort),
                                                                           DictItem(TxtContract, FALSE, <<>>, <<>>)>>],
                                                 edge     |-> [isList |-> TRUE,
                                                               items |-> <<DictItem(TxtShort, TRUE, NameLucas, <<>>),
                                                                           DictItem(TxtTail, TRUE, <<>>, EmailLucas)>>],
                                                 notAList |-> [isList |-> FALSE, items |-> <<StrItem(TxtContract)>>]]

MeetingData(id, title, action_items, duration_seconds) ==
    [id |-> id, title |-> title, transcript |-> <<>>, summary |-> <<"o", "k">>,
     action_items |-> action_items, attendees |-> <<my_emails[1]>>,
     duration_seconds |-> duration_seconds]

\* meeting_data of direct process_meeting calls (the history import)
MeetingInputs ==
        \* a transcript with a decision, naming a direct report who is doing fine
    LET TxtOnTrack ==
            <<"D","e","c","i","s","i","o","n",":"," ","s","h","i","p"," ","i","t","."," ","C","h","r","i","s","t","i","a","n"," ","i","s"," ","o","n"," ","t","r","a","c","k",".">>
    IN
        {MeetingData(<<"rec", 1>>, "Weekly sync", ActionItemInputs.mine, 1800),
         MeetingData(<<"rec", 2>>, "Roadmap", ActionItemInputs.mixed, 90),
         MeetingData(<<"rec", 1>>, "Weekly sync", ActionItemInputs.twice, 150),
         [MeetingData(<<"rec", 2>>, "Roadmap", ActionItemInputs.rejected, 0)
             EXCEPT !.attendees = <<my_emails[1], <<"C","h","r","i","s","t","i","a","n"," ","S","t","a","l","e","y">>>>],
         MeetingData(<<"rec", 3>>, "Vendor call", ActionItemInputs.edge, 60),
         MeetingData(<<>>, "Untitled Meeting", ActionItemInputs.notAList, 0),
         [MeetingData(<<"rec", 4>>, "One on one", ActionItemInputs.none, 1800)
             EXCEPT !.transcript = TxtOnTrack],
         [MeetingData(<<"rec", 5>>, "Team sync", ActionItemInputs.none, 2700)
             EXCEPT !.transcript = <<"I","'","m"," ","s","w","a","m","p","e","d",","," ","t","i","r","e","d"," ","a","n","d"," ","w","o","r","r","i","e","d","."," ","I","'","m"," ","b","l","o","c","k","e","d"," ","o","n"," ","l","e","g","a","l",".">>,
                    !.attendees = <<my_emails[1], <<"H","a","n","n","a","h"," ","H","o","l","b","r","o","o","k">>>>],
         [MeetingData(<<"rec", 6>>, "Release", ActionItemInputs.none, 600)
             EXCEPT !.transcript = <<"D","e","c","i","s","i","o","n",":"," ","g","o"," ","l","i","v","e",".">>]}

\* data of the webhook payloads: hasId is whether the payload carries an id
WebhookInputs ==
    {[hasId |-> TRUE, data |-> MeetingData(<<"rec", 1>>, "Weekly sync",
                                           ActionItemInputs.mine, 1800)],
     [hasId |-> FALSE, data |-> MeetingData(<<>>, "Untitled Meeting",
                                            ActionItemInputs.none, 0)]}

\* team_signals of line 384 for the transcript and attendees of every
\* meeting drawn
TeamWellness ==
    [called \in {<<m.transcript, m.attendees>> :
                    m \in MeetingInputs \cup {payload.data : payload \in WebhookInputs}}
        |-> extract_team_wellness(called[1], called[2])]

\* meeting_record of lines 369-386: the record of lines 369-380, with the
\* team_wellness key when extract_team_wellness found somebody
MeetingRecord(meeting_data, day) ==
        \* round(x / 60): Python rounds a tie to the even neighbour
    LET RoundDiv60(x) ==
            LET q == x \div 60
                r == x % 60
            IN IF r < 30 THEN q
               ELSE IF r > 30 THEN q + 1
               ELSE IF q % 2 = 0 THEN q ELSE q + 1
    IN
        LET signals == MeetingSignals(meeting_data.action_items)
            meeting_record ==
           [date |-> day,
            time |-> "HH:MM",
            title |-> meeting_data.title,
            meeting_id |-> meeting_data.id,
            duration_minutes |-> RoundDiv60(meeting_data.duration_seconds),
            attendees |-> meeting_data.attendees,
            signals |-> signals,
            summary |-> FirstN(meeting_data.summary, SUMMARY_KEPT),
            has_actions |-> (signals.actions_for_me # <<>> \/ signals.follow_ups # <<>>)]
            \* lines 384-386: the key is set when team_signals is not empty
            with_wellness(team_signals) ==
                IF DOMAIN team_signals # {}
                THEN SetKey(meeting_record, "team_wellness", team_signals)
                ELSE meeting_record
        IN with_wellness(TeamWellness[<<meeting_data.transcript, meeting_data.attendees>>])

CaptureCall ==
    <<"C","a","l","l"," ","M","i","k","e"," ","a","b","o","u","t"," ","Q",
      "1">>

CaptureInputs ==
    LET CaptureTrigger ==
            <<"c","a","p","t","u","r","e",":","\n","o","k">>
    IN
        LET CaptureThree ==
                <<"-"," ","C","a","l","l"," ","M","i","k","e"," ","a","b","o","u","t",
                  " ","Q","1","\n","-"," ","I","d","e","a",":"," ","a","u","t","o","m",
                  "a","t","e"," ","w","e","e","k","l","y"," ","r","e","p","o","r","t",
                  "\n","-"," ","R","e","v","i","e","w"," ","P","R"," ","b","y"," ","F",
                  "r","i","d","a","y">>
        IN
            {CaptureThree, CaptureNote, CaptureTrigger, CaptureCall}

\* parse_capture of each of them, computed once
ParsedCaptures == [text \in CaptureInputs |-> parse_capture(text)]


\* parse_curated_message(raw_text) for the messages drawn here; a date is
\* <<day>> and None is <<>>, duration_minutes None is 0
NotParsed == [has_meeting |-> FALSE, meeting_date |-> <<>>, meeting_date_text |-> <<>>,
              people |-> <<>>, topics |-> <<>>, duration_minutes |-> 0,
              is_scheduled |-> FALSE, raw_text |-> <<>>]

parse_curated_message(raw_text, day) ==
    CASE raw_text = SlackBooked ->
            [has_meeting |-> TRUE, meeting_date |-> <<day + 1>>,
             meeting_date_text |-> <<"tomorrow">>, people |-> <<"gino">>,
             topics |-> <<>>, duration_minutes |-> 0, is_scheduled |-> TRUE,
             raw_text |-> FirstN(raw_text, 500)]
      [] raw_text = SlackSync ->
            [has_meeting |-> TRUE, meeting_date |-> <<>>, meeting_date_text |-> <<>>,
             people |-> <<>>, topics |-> <<"beta rollout">>, duration_minutes |-> 0,
             is_scheduled |-> FALSE, raw_text |-> FirstN(raw_text, 500)]
      [] OTHER -> [NotParsed EXCEPT !.raw_text = FirstN(raw_text, 500)]

\* messages with the insights extract_insights finds in them
SlackInputs ==
    LET NoInsights(channel) ==
            [customers_mentioned |-> <<>>, projects_mentioned |-> <<>>, themes |-> <<>>,
             channel |-> channel]
    IN
        LET SlackLunch ==
                <<"l","u","n","c","h","?">>
        IN
            {[raw_text |-> SlackBooked, is_curated |-> TRUE,
              insights |-> NoInsights("lucas-briefing")],
             [raw_text |-> SlackSync, is_curated |-> TRUE,
              insights |-> [NoInsights("lucas-briefing") EXCEPT
                                !.projects_mentioned = <<"beta", "rollout">>]],
             [raw_text |-> SlackPilot, is_curated |-> FALSE,
              insights |-> [NoInsights("product") EXCEPT !.projects_mentioned = <<"pilot">>]],
             [raw_text |-> SlackLunch, is_curated |-> FALSE,
              insights |-> NoInsights("general")]}

-----------------------------------------------------------------------------
(* Initial documents *)

\* memory.json as the repository ships it: none of the bounded lists yet
BaseDoc == [incidents |-> <<>>, decisions |-> <<>>, customer_patterns |-> <<>>]




\* earlier inbox entries; some were completed by hand in the file
OldInbox(i) ==
    [type |-> IF i % 3 = 0 THEN "deadline" ELSE "action",
     from_meeting |-> "Earlier meeting", date |-> 0, content |-> <<"n", "r", i>>,
     status |-> IF i % 2 = 0 THEN "done" ELSE "open"]

\* a document whose bounded lists are each one short of their maximum
NearFullDoc ==
    LET OldObservation(i) ==
            [date |-> 0, time |-> "HH:MM", channel |-> "general", customers |-> <<>>,
             projects |-> <<>>, themes |-> <<"deadline">>, snippet |-> <<"n", "r", i>>]
    IN
        LET OldCapture(i) == [date |-> 0, user |-> "U9NLNTPDK", items |-> <<>>, n |-> i]
        IN
            LET OldMeeting(i) ==
                    [date |-> 0, time |-> "HH:MM", title |-> "Earlier meeting",
                     meeting_id |-> <<"old", i>>, duration_minutes |-> 30, attendees |-> <<>>,
                     signals |-> EmptySignals, summary |-> <<>>, has_actions |-> FALSE]
            IN
                [incidents |-> <<>>, decisions |-> <<>>, customer_patterns |-> <<>>,
                 meetings |-> [i \in 1..(MEETINGS_KEPT - 1) |-> OldMeeting(i)],
                 captures |-> [i \in 1..(CAPTURES_KEPT - 1) |-> OldCapture(i)],
                 observations |-> [i \in 1..(OBSERVATIONS_KEPT - 1) |-> OldObservation(i)],
                 inbox |-> [i \in 1..(INBOX_KEPT - 1) |-> OldInbox(i)]]

\* a memory.json that is missing or is not JSON
Unreadable == [unreadable |-> TRUE]


\* SlackListener.__init__, an empty Slack workspace and the empty stage
\* folders process_article_ideas makes when it is loaded
SlackStart ==
    /\ channels = [c \in {"C021RP67MTP", "C0AFPAQ0KMF", "C0AFK5PHE5Q"} |-> <<>>]
    /\ processed_messages = {}
    /\ listener = [state |-> "idle"]
    /\ calls = <<>>
    /\ folders = [f \in {"inbox", "drafts", "review", "approved", "published"} |-> {}]
    /\ marked = {}
    /\ articles = {}
    /\ used = [messages |-> 0, scans |-> 0, commands |-> 0]

Procs == {"receiver", "listener", "heartbeat", "helper"}

NoCall == [op |-> "none"]

Init ==
    LET InitialDocs == {BaseDoc, NearFullDoc, Unreadable}
    IN
        /\ mem \in InitialDocs
        /\ today = 1
        /\ steps = 0
        /\ lastOp = "none"
        /\ arg = <<>>
        /\ ret = [kind |-> "none"]
        /\ taskReqs = <<>>
        /\ taskResults = <<>>
        /\ hist = [k \in BoundedKeys |-> GetList(mem, k)]
        /\ meetings_store = <<>>
        /\ nGenerated = 0
        /\ pc = [p \in Procs |-> "idle"]
        /\ loaded = [p \in Procs |-> [doc |-> <<>>, call |-> NoCall]]
        /\ missed = [p \in Procs |-> {}]
        /\ lastSave = [proc |-> "none"]
        /\ entities = [customers |-> <<[id |-> <<"a","c","m","e">>,
                                        rec |-> [name |-> <<"A","c","m","e"," ","C","o","r","p">>,
                                                 last_contact |-> 0]]>>]
        /\ contacted = <<>>
        /\ disk = <<>>
        /\ saver = [state |-> "idle"]
        /\ SlackStart

-----------------------------------------------------------------------------
(* shared_memory.load_memory / save_memory *)

\* what load_memory raises: FileNotFoundError of open, JSONDecodeError of
\* json.load
ReadError == [error |-> "read"]

\* a load that answers a missing or broken file with an empty document
load_memory_or_empty(file) == IF file = Unreadable THEN BaseDoc ELSE file

\* json.load of the file
load_memory(file) == IF file = Unreadable THEN ReadError ELSE file

\* a save that keeps, list by list, the longer of the file's and the caller's
save_memory_merged(data, file) ==
    [k \in DOMAIN data \cup DOMAIN file |->
        IF k \in DOMAIN file /\ (k \notin DOMAIN data \/ Len(file[k]) > Len(data[k]))
        THEN file[k] ELSE data[k]]

\* json.dump over the file opened with 'w': the file becomes data
save_memory(data, file) == data

-----------------------------------------------------------------------------
(* Operations, run one at a time *)

Results(made, outcomes) == [i \in 1..Len(made) |-> outcomes[i]]

Raised(made, outcomes) == made # <<>> /\ outcomes[Len(made)] = "raise"

\* process_meeting without the try/except of lines 401-415: an exception of
\* create_task leaves the function before the inbox and save_memory
RunProcessMeetingUnguarded(meeting_data, outcomes) ==
    LET rec == MeetingRecord(meeting_data, today)
        made == CallsMade(MeetingTaskRequests(rec), outcomes)
    IN /\ taskReqs' = made
       /\ taskResults' = Results(made, outcomes)
       /\ arg' = meeting_data
       /\ IF Raised(made, outcomes)
          THEN /\ ret' = [kind |-> "raised", error |-> "create_task"]
               /\ UNCHANGED <<mem, hist>>
          ELSE /\ mem' = save_memory(MeetingDoc(load_memory(mem), rec), mem)
               /\ hist' = [hist EXCEPT !.meetings = Append(@, rec),
                                       !.inbox = @ \o MeetingInboxEntries(rec)]
               /\ ret' = [kind |-> "record", value |-> rec]

\* transcript_processor.process_meeting(meeting_data), with the k-th
\* create_task call ending as outcomes[k]; the exception of a call is caught
\* at line 414 and the function goes on to the inbox, the save and the return
RunProcessMeeting(meeting_data, outcomes) ==
    LET rec == MeetingRecord(meeting_data, today)
        made == CallsMade(MeetingTaskRequests(rec), outcomes)
        doc == load_memory(mem)
    IN /\ arg' = meeting_data
       /\ IF doc = ReadError
          THEN /\ ret' = [kind |-> "raised", error |-> "read"]
               /\ taskReqs' = <<>>
               /\ taskResults' = <<>>
               /\ UNCHANGED <<mem, hist>>
          ELSE /\ mem' = save_memory(MeetingDoc(doc, rec), mem)
               /\ taskReqs' = made
               /\ taskResults' = Results(made, outcomes)
               /\ hist' = [hist EXCEPT !.meetings = Append(@, rec),
                                       !.inbox = @ \o MeetingInboxEntries(rec)]
               /\ ret' = [kind |-> "record", value |-> rec]

ProcessMeeting ==
    /\ steps < MaxSteps
    /\ \E meeting_data \in MeetingInputs :
         \E outcomes \in [1..Len(MeetingTaskRequests(MeetingRecord(meeting_data, today)))
                            -> TaskOutcomes] :
           RunProcessMeeting(meeting_data, outcomes)
    /\ lastOp' = "process_meeting"
    /\ steps' = steps + 1
    /\ UNCHANGED <<auxVars, today, meetings_store, nGenerated, procVars>>


\* fathom_webhook.fathom_webhook with a valid signature
FathomWebhook ==
        \* the meeting_record fathom_webhook builds from the payload
    LET WebhookRecord(payload, n) ==
            IF payload.hasId THEN payload.data
            ELSE [payload.data EXCEPT !.id = <<"meeting", n>>]
    IN
        /\ steps < MaxSteps
        /\ \E payload \in WebhookInputs :
          LET meeting_record == WebhookRecord(payload, nGenerated + 1)
          IN \E outcomes \in [1..Len(MeetingTaskRequests(MeetingRecord(meeting_record, today)))
                                -> TaskOutcomes] :
            /\ meetings_store' = LastN(Append(meetings_store, meeting_record), MAX_MEETINGS)
            /\ nGenerated' = IF payload.hasId THEN nGenerated ELSE nGenerated + 1
            /\ RunProcessMeeting(meeting_record, outcomes)
            /\ lastOp' = "fathom_webhook"
            /\ steps' = steps + 1
            /\ UNCHANGED <<auxVars, today, procVars>>

\* fathom_webhook.fathom_webhook with a secret configured and a bad signature
FathomWebhookRejected ==
    /\ steps < MaxSteps
    /\ lastOp' = "fathom_webhook"
    /\ arg' = <<>>
    /\ ret' = [kind |-> "http", status |-> 401]
    /\ taskReqs' = <<>>
    /\ taskResults' = <<>>
    /\ steps' = steps + 1
    /\ UNCHANGED <<auxVars, mem, today, hist, meetings_store, nGenerated, procVars>>

\* heartbeat.process_capture(text, user_id)
ProcessCapture ==
    LET CountType(items, type) == Len(SelectSeq(items, LAMBDA it : it.type = type))
    IN
      /\ steps < MaxSteps
      /\ \E text \in CaptureInputs :
          LET items == ParsedCaptures[text]
              requests == CaptureTaskRequests(items, today)
          IN \E outcomes \in [1..Len(requests) -> TaskOutcomes] :
            LET made == CallsMade(requests, outcomes)
                entry == CaptureEntry(CapturedItems(items, outcomes, 1), "U9NLNTPDK", today)
                doc == load_memory(mem)
            IN /\ lastOp' = "process_capture"
               /\ arg' = text
               /\ steps' = steps + 1
               /\ IF items = <<>>
                  THEN /\ ret' = [kind |-> "text", value |-> "Couldn't parse any items"]
                       /\ taskReqs' = <<>>
                       /\ taskResults' = <<>>
                       /\ UNCHANGED <<mem, hist>>
                  ELSE IF doc = ReadError
                  THEN /\ ret' = [kind |-> "raised", error |-> "read"]
                       /\ taskReqs' = <<>>
                       /\ taskResults' = <<>>
                       /\ UNCHANGED <<mem, hist>>
                  ELSE /\ taskReqs' = made
                       /\ taskResults' = Results(made, outcomes)
                       /\ IF Raised(made, outcomes)
                          THEN /\ ret' = [kind |-> "raised", error |-> "create_task"]
                               /\ UNCHANGED <<mem, hist>>
                          ELSE /\ mem' = save_memory(StoreCapture(doc, entry), mem)
                               /\ hist' = [hist EXCEPT !.captures = Append(@, entry)]
                               /\ ret' = [kind |-> "text",
                                          value |-> <<"Captured", Len(items),
                                                      CountType(entry.items, "task"),
                                                      CountType(items, "idea"),
                                                      CountType(items, "note")>>]
               /\ UNCHANGED <<auxVars, today, meetings_store, nGenerated, procVars>>


\* SlackListener.update_memory(insights, raw_text, is_curated), with
\* check_meeting_scheduled ending as existing and create_event as event
UpdateMemory ==
        \* not is_curated and not any([...]): nothing interesting
    LET NothingInteresting(insights, is_curated) ==
            /\ ~is_curated
            /\ insights.customers_mentioned = <<>>
            /\ insights.projects_mentioned = <<>>
            /\ insights.themes = <<>>
    IN
        LET CalendarAnswers == {"none", "same_date", "other_date", "raise"}
        IN
          /\ steps < MaxSteps
          /\
            \E msg \in SlackInputs :
             LET parsed == IF msg.is_curated THEN parse_curated_message(msg.raw_text, today)
                           ELSE NotParsed
             IN
             \E existing \in IF msg.is_curated /\ ChecksCalendar(parsed)
                             THEN CalendarAnswers ELSE {"none"} :
             \E event \in IF msg.is_curated /\ parsed.has_meeting /\ WantsEvent(parsed, existing)
                          THEN TaskOutcomes ELSE {"none"} :
              LET obs == Observation(msg.insights, msg.raw_text, msg.is_curated, parsed, today)
                  item == StoredInboxItem(parsed, today, existing, event)
              IN /\ lastOp' = "update_memory"
                 /\ arg' = msg
                 /\ steps' = steps + 1
                 /\ taskReqs' = <<>>
                 /\ taskResults' = <<>>
                 /\ IF NothingInteresting(msg.insights, msg.is_curated)
                    THEN /\ ret' = [kind |-> "none"]
                         /\ UNCHANGED <<mem, hist>>
                    ELSE IF load_memory(mem) = ReadError
                    THEN /\ ret' = [kind |-> "raised", error |-> "read"]
                         /\ UNCHANGED <<mem, hist>>
                    ELSE IF msg.is_curated /\ ChecksCalendar(parsed) /\ existing = "raise"
                    THEN /\ ret' = [kind |-> "raised", error |-> "calendar"]
                         /\ UNCHANGED <<mem, hist>>
                    ELSE /\ mem' = save_memory(
                                      ObservationDoc(load_memory(mem), msg.insights, msg.raw_text,
                                                     msg.is_curated, parsed, today, existing, event),
                                      mem)
                         /\ hist' = [hist EXCEPT
                                       !.observations = Append(@, obs),
                                       !.inbox = IF msg.is_curated /\ parsed.has_meeting
                                                 THEN Append(@, item) ELSE @]
                         /\ ret' = [kind |-> "none"]
                 /\ UNCHANGED <<auxVars, today, meetings_store, nGenerated, procVars>>

\* midnight passes
Tick ==
    /\ steps < MaxSteps
    /\ today' = today + 1
    /\ steps' = steps + 1
    /\ lastOp' = "tick"
    /\ UNCHANGED <<auxVars, mem, arg, ret, taskReqs, taskResults, hist, meetings_store,
                   nGenerated, procVars>>
-----------------------------------------------------------------------------
(* shared_memory: the entity store and the quick helpers *)

\* update_customer with the two last assignments exchanged: last_contact is
\* stamped first and the attributes are merged over it
update_customer_attributes_last(ent, customer_id, kwargs, day) ==
    LET customers == ent.customers
        present == \E i \in 1..Len(customers) : customers[i].id = customer_id
        created == IF present THEN customers
                   ELSE Append(customers, [id |-> customer_id,
                                           rec |-> [k \in {"name"} |-> customer_id]])
        merged(rec) == LET stamped == SetKey(rec, "last_contact", day)
                       IN [k \in (DOMAIN stamped) \cup (DOMAIN kwargs) |->
                              IF k \in DOMAIN kwargs THEN kwargs[k] ELSE stamped[k]]
    IN [ent EXCEPT !.customers =
           [i \in 1..Len(created) |->
               IF created[i].id = customer_id
               THEN [created[i] EXCEPT !.rec = merged(created[i].rec)]
               ELSE created[i]]]

\* update_customer(customer_id, **kwargs) on the loaded store ent: the
\* customers dict is kept as the sequence of its items, in insertion order
update_customer(ent, customer_id, kwargs, day) ==
    LET customers == ent.customers
        present == \E i \in 1..Len(customers) : customers[i].id = customer_id
        created == IF present THEN customers
                   ELSE Append(customers, [id |-> customer_id,
                                           rec |-> [k \in {"name"} |-> customer_id]])
        merged(rec) == [k \in (DOMAIN rec) \cup (DOMAIN kwargs) |->
                           IF k \in DOMAIN kwargs THEN kwargs[k] ELSE rec[k]]
    IN [ent EXCEPT !.customers =
           [i \in 1..Len(created) |->
               IF created[i].id = customer_id
               THEN [created[i] EXCEPT !.rec = SetKey(merged(created[i].rec), "last_contact", day)]
               ELSE created[i]]]

\* a call of update_customer: load_entities, update, save_entities
UpdateCustomer ==
    /\ steps < MaxSteps
    /\ \E customer_id \in {<<"a","c","m","e">>, <<"b","i","g","c","o">>},
          kwargs \in {<<>>, [last_contact |-> 0],
                      [name |-> <<"B","i","g","C","o"," ","I","n","c">>, tier |-> "gold"]} :
          /\ entities' = update_customer(entities, customer_id, kwargs, today)
          /\ contacted' = SetKey(contacted, customer_id, today)
          /\ arg' = [customer_id |-> customer_id, kwargs |-> kwargs]
    /\ ret' = [kind |-> "none"]
    /\ lastOp' = "update_customer"
    /\ steps' = steps + 1
    /\ taskReqs' = <<>>
    /\ taskResults' = <<>>
    /\ UNCHANGED <<mem, today, hist, meetings_store, nGenerated, procVars, disk, saver,
                   slackVars>>

\* the records a call appends to each bounded list
NoAppends == [k \in BoundedKeys |-> <<>>]

\* log_incident or log_decision between load_memory and save_memory
LogWork(op, day) ==
    [op |-> op, saves |-> TRUE, appends |-> NoAppends, made |-> <<>>, results |-> <<>>,
     ret |-> [kind |-> "none"],
     key |-> IF op = "log_incident" THEN "incidents" ELSE "decisions",
     arg |-> IF op = "log_incident"
             THEN [id |-> "INC-1", date |-> day, summary |-> "Login outage",
                   affected_customers |-> <<<<"A","c","m","e"," ","C","o","r","p">>>>,
                   resolution |-> <<>>, lessons |-> <<>>]
             ELSE [date |-> day, topic |-> "Escalations", decision |-> "Route to tier 2",
                   rationale |-> <<>>]]

\* log_incident(incident_id, summary, affected_customers) and
\* log_decision(topic, decision): load_memory, append, save_memory
LogEntry(key, entry) ==
    /\ steps < MaxSteps
    /\ LET doc == load_memory(mem)
       IN IF doc = ReadError
          THEN /\ ret' = [kind |-> "raised", error |-> "read"]
               /\ UNCHANGED mem
          ELSE IF ~HasKey(doc, key)
          THEN /\ ret' = [kind |-> "raised", error |-> "KeyError"]
               /\ UNCHANGED mem
          ELSE /\ mem' = save_memory([doc EXCEPT ![key] = Append(@, entry)], mem)
               /\ ret' = [kind |-> "none"]
    /\ arg' = entry
    /\ steps' = steps + 1
    /\ taskReqs' = <<>>
    /\ taskResults' = <<>>
    /\ UNCHANGED <<auxVars, today, hist, meetings_store, nGenerated, procVars>>

LogIncident ==
    /\ LogEntry("incidents", LogWork("log_incident", today).arg)
    /\ lastOp' = "log_incident"

LogDecision ==
    /\ LogEntry("decisions", LogWork("log_decision", today).arg)
    /\ lastOp' = "log_decision"

\* the reading operations: what they return, and nothing else
Reads(op, value) ==
    /\ steps < MaxSteps
    /\ lastOp' = op
    /\ ret' = IF load_memory(mem) = ReadError THEN [kind |-> "raised", error |-> "read"]
              ELSE [kind |-> "value", value |-> value]
    /\ steps' = steps + 1
    /\ taskReqs' = <<>>
    /\ taskResults' = <<>>
    /\ UNCHANGED <<auxVars, mem, today, hist, meetings_store, nGenerated, procVars>>

\* transcript_processor.get_my_inbox(status)
GetMyInbox ==
    \E status \in {"open"} :
        /\ Reads("get_my_inbox",
                 SelectSeq(GetList(mem, "inbox"), LAMBDA i : i.status = status))
        /\ arg' = status

\* transcript_processor.summarize_week()
SummarizeWeek ==
    LET meetings == LastN(GetList(mem, "meetings"), 10)
        inbox == SelectSeq(GetList(mem, "inbox"), LAMBDA i : i.status = "open")
        RECURSIVE extended(_, _)
        extended(key, k) == IF k > Len(meetings) THEN <<>>
                            ELSE meetings[k].signals[key] \o extended(key, k + 1)
    IN \E customers \in Orderings(extended("customers_mentioned", 1)),
          projects \in Orderings(extended("projects_mentioned", 1)) :
        /\ Reads("summarize_week",
                 [meetings_count |-> Len(meetings),
                  open_actions |-> Len(SelectSeq(inbox, LAMBDA i : i.type = "action")),
                  upcoming_deadlines |-> Len(SelectSeq(inbox, LAMBDA i : i.type = "deadline")),
                  customers_discussed |-> customers,
                  projects_discussed |-> projects,
                  key_decisions |-> extended("decisions", 1)])
        /\ arg' = <<>>

\* shared_memory.get_customer_context(customer_name)
GetCustomerContext ==
    \E customer_name \in {<<"A","c","m","e">>} :
        LET name == Lower(customer_name)
            \* str(list) of a list of strings without quotes in them
            RECURSIVE str(_, _)
            str(list, k) == IF k > Len(list) THEN <<"]">>
                            ELSE (IF k = 1 THEN <<>> ELSE <<",", " ">>)
                                 \o <<"'">> \o list[k] \o <<"'">> \o str(list, k + 1)
            customers == entities.customers
            hits == {i \in 1..Len(customers) : Contains(name, Lower(customers[i].rec["name"]))}
            entity == IF hits = {} THEN NoMatch
                      ELSE [found |-> TRUE,
                            cust |-> customers[CHOOSE i \in hits : \A j \in hits : i <= j].rec]
        IN /\ Reads("get_customer_context",
                    [entity |-> entity,
                     incidents |-> SelectSeq(GetList(mem, "incidents"),
                                             LAMBDA inc : Contains(name,
                                                 Lower(<<"[">> \o str(inc.affected_customers, 1)))),
                     patterns |-> SelectSeq(GetList(mem, "customer_patterns"),
                                            LAMBDA pat : Contains(name, Lower(pat.customer)))])
           /\ arg' = customer_name

Next ==
    \/ ProcessMeeting
    \/ FathomWebhook
    \/ FathomWebhookRejected
    \/ ProcessCapture
    \/ UpdateMemory
    \/ UpdateCustomer
    \/ LogIncident
    \/ LogDecision
    \/ GetMyInbox
    \/ SummarizeWeek
    \/ GetCustomerContext
    \/ Tick

Spec == Init /\ [][Next]_vars

-----------------------------------------------------------------------------
(* The same operations as processes: each loads the file, works on its own *)
(* copy (calling Google in between) and saves; nothing orders the cycles   *)
(* of different processes.                                                 *)




\* process_meeting between load_memory and save_memory
MeetingWork(meeting_data, outcomes, day) ==
    LET rec == MeetingRecord(meeting_data, day)
        made == CallsMade(MeetingTaskRequests(rec), outcomes)
    IN [op |-> "process_meeting", arg |-> meeting_data, saves |-> TRUE,
        appends |-> [NoAppends EXCEPT !.meetings = <<rec>>,
                                      !.inbox = MeetingInboxEntries(rec)],
        made |-> made, results |-> Results(made, outcomes),
        ret |-> [kind |-> "record", value |-> rec]]

\* update_memory between load_memory and save_memory
ObservationWork(msg, day) ==
    LET parsed == IF msg.is_curated THEN parse_curated_message(msg.raw_text, day)
                  ELSE NotParsed
    IN [op |-> "update_memory", arg |-> msg, saves |-> TRUE,
        appends |-> [NoAppends EXCEPT
                        !.observations = <<Observation(msg.insights, msg.raw_text,
                                                       msg.is_curated, parsed, day)>>,
                        !.inbox = IF msg.is_curated /\ parsed.has_meeting
                                  THEN <<StoredInboxItem(parsed, day, "none", "none")>>
                                  ELSE <<>>],
        made |-> <<>>, results |-> <<>>, ret |-> [kind |-> "none"]]

\* process_capture between load_memory and save_memory
CaptureWork(text, outcomes, day) ==
    LET items == ParsedCaptures[text]
        made == CallsMade(CaptureTaskRequests(items, day), outcomes)
        entry == CaptureEntry(CapturedItems(items, outcomes, 1), "U9NLNTPDK", day)
    IN [op |-> "process_capture", arg |-> text, saves |-> ~Raised(made, outcomes),
        appends |-> [NoAppends EXCEPT !.captures = <<entry>>],
        made |-> made, results |-> Results(made, outcomes),
        ret |-> IF Raised(made, outcomes) THEN [kind |-> "raised", error |-> "create_task"]
                ELSE [kind |-> "text", value |-> <<"Captured", Len(items)>>]]

\* the document a process builds from the one it loaded
WorkDoc(doc, work) ==
    CASE work.op = "process_meeting" ->
            StoreMeetingInbox(StoreMeeting(doc, work.appends.meetings[1]),
                              work.appends.meetings[1])
      [] work.op = "update_memory" ->
            StoreObservation(
                IF work.appends.inbox # <<>>
                THEN StoreCuratedInbox(doc, work.appends.inbox[1]) ELSE doc,
                work.appends.observations[1])
      [] work.op = "process_capture" ->
            StoreCapture(doc, work.appends.captures[1])
      [] work.op \in {"log_incident", "log_decision"} ->
            [doc EXCEPT ![work.key] = Append(@, work.arg)]

\* mem = load_memory() in process p, which then runs `work`
Load(p, work) ==
    /\ pc[p] = "idle"
    /\ steps < MaxSteps
    /\ load_memory(mem) # ReadError
    /\ pc' = [pc EXCEPT ![p] = "loaded"]
    /\ loaded' = [loaded EXCEPT ![p] = [doc |-> load_memory(mem), call |-> work]]
    /\ missed' = [missed EXCEPT ![p] = {}]
    /\ steps' = steps + 1
    /\ UNCHANGED <<auxVars, mem, today, lastOp, arg, ret, taskReqs, taskResults, hist,
                   meetings_store, nGenerated, lastSave>>

ReceiverLoads ==
        \* inputs of the concurrent runs
    LET ConcMeetingInputs ==
            {MeetingData(<<"rec", 1>>, "Weekly sync", ActionItemInputs.mine, 1800),
             MeetingData(<<"rec", 2>>, "Roadmap", ActionItemInputs.rejected, 0)}
    IN
        \E meeting_data \in ConcMeetingInputs :
          \E outcomes \in [1..Len(MeetingTaskRequests(MeetingRecord(meeting_data, today)))
                             -> TaskOutcomes] :
            Load("receiver", MeetingWork(meeting_data, outcomes, today))

ListenerLoads ==
    LET ConcSlackInputs == {msg \in SlackInputs : msg.raw_text \in {SlackSync, SlackPilot}}
    IN
        \E msg \in ConcSlackInputs : Load("listener", ObservationWork(msg, today))

HeartbeatLoads ==
    LET ConcCaptureInputs == {CaptureNote, CaptureCall}
    IN
        \E text \in ConcCaptureInputs :
          \E outcomes \in [1..Len(CaptureTaskRequests(ParsedCaptures[text], today))
                             -> TaskOutcomes] :
            Load("heartbeat", CaptureWork(text, outcomes, today))

HelperLoads ==
    \E op \in {"log_incident", "log_decision"} : Load("helper", LogWork(op, today))

\* save_memory(mem) in process p, ending its call
Save(p) ==
        \* the pairs <<list, record>> a call appends
    LET AppendedSet(work) ==
            UNION {{<<k, work.appends[k][i]>> : i \in 1..Len(work.appends[k])} : k \in BoundedKeys}
    IN
        LET work == loaded[p].call
            data == WorkDoc(loaded[p].doc, work)
        IN /\ pc[p] = "loaded"
           /\ work.saves
           /\ mem' = save_memory(data, mem)
           /\ pc' = [pc EXCEPT ![p] = "idle"]
           /\ hist' = [k \in BoundedKeys |-> hist[k] \o work.appends[k]]
           /\ missed' = [q \in Procs |->
                            IF q # p /\ pc[q] = "loaded"
                            THEN missed[q] \cup AppendedSet(work) ELSE missed[q]]
           /\ lastSave' = [proc |-> p, data |-> data, loaded |-> loaded[p].doc,
                           appends |-> work.appends, missed |-> missed[p]]
           /\ lastOp' = work.op
           /\ arg' = work.arg
           /\ ret' = work.ret
           /\ taskReqs' = work.made
           /\ taskResults' = work.results
           /\ UNCHANGED <<auxVars, today, steps, meetings_store, nGenerated, loaded>>

\* the call of process p ends in an exception before save_memory
Abort(p) ==
    LET work == loaded[p].call
    IN /\ pc[p] = "loaded"
       /\ ~work.saves
       /\ pc' = [pc EXCEPT ![p] = "idle"]
       /\ lastOp' = work.op
       /\ arg' = work.arg
       /\ ret' = work.ret
       /\ taskReqs' = work.made
       /\ taskResults' = work.results
       /\ UNCHANGED <<auxVars, mem, today, steps, hist, meetings_store, nGenerated, loaded,
                      missed, lastSave>>

\* load_memory raises in process p and its call ends there
LoadFails ==
    \E p \in Procs :
        /\ pc[p] = "idle"
        /\ steps < MaxSteps
        /\ load_memory(mem) = ReadError
        /\ steps' = steps + 1
        /\ lastOp' = CASE p = "receiver" -> "process_meeting"
                        [] p = "listener" -> "update_memory"
                        [] p = "heartbeat" -> "process_capture"
                        [] p = "helper" -> "log_incident"
        /\ ret' = [kind |-> "raised", error |-> "read"]
        /\ taskReqs' = <<>>
        /\ taskResults' = <<>>
        /\ UNCHANGED <<auxVars, mem, today, arg, hist, meetings_store, nGenerated, procVars>>

ReceiverSaves == Save("receiver")
ListenerSaves == Save("listener")
HeartbeatSaves == Save("heartbeat")
HelperSaves == Save("helper")
HeartbeatAborts == Abort("heartbeat")

NextConc ==
    \/ ReceiverLoads
    \/ ListenerLoads
    \/ HeartbeatLoads
    \/ HelperLoads
    \/ ReceiverSaves
    \/ ListenerSaves
    \/ HeartbeatSaves
    \/ HelperSaves
    \/ HeartbeatAborts
    \/ LoadFails

SpecConc == Init /\ [][NextConc]_vars

-----------------------------------------------------------------------------
(* Properties of the sequential operations (Spec) *)

Range(s) == {s[i] : i \in 1..Len(s)}

Last(s) == s[Len(s)]

MeetingOps == {"process_meeting", "fathom_webhook"}

\* the elements of a record's signals that process_meeting turns into tasks
\* and inbox entries, in order
Elements(rec) ==
    rec.signals.actions_for_me \o rec.signals.follow_ups \o rec.signals.deadlines

\* C1: after any sequence of process_meeting, process_capture and
\* update_memory calls that run one at a time, the saved document holds at
\* most 50 meetings, 50 captures, 100 observations and 100 inbox entries.
ListsWithinBounds ==
    \A k \in BoundedKeys : Len(GetList(mem, k)) <= Kept(k)

\* more meetings and more inbox entries were appended than are kept
MeetingsAndInboxOverflowed ==
    /\ lastOp \in MeetingOps
    /\ Len(hist.meetings) > MEETINGS_KEPT
    /\ Len(hist.inbox) > INBOX_KEPT
    /\ Len(GetList(mem, "meetings")) = MEETINGS_KEPT
    /\ Len(GetList(mem, "inbox")) = INBOX_KEPT

\* C2: each bounded list holds exactly the last min(N, max) of the N records
\* ever appended to it, in the order they were appended, so the oldest are
\* the ones dropped and the record just appended stays.
ListsKeepNewest ==
    \A k \in BoundedKeys : GetList(mem, k) = LastN(hist[k], Kept(k))

\* update_memory has just pushed the oldest observation out
OldestObservationEvicted ==
    /\ lastOp = "update_memory"
    /\ Len(hist.observations) > OBSERVATIONS_KEPT
    /\ hist.observations[1] \notin Range(GetList(mem, "observations"))
    /\ Last(GetList(mem, "observations")) = Last(hist.observations)

\* C4: the meetings list never holds two records with the same meeting_id,
\* however often a meeting is delivered or processed.
UniqueMeetingIds ==
    LET meetings == GetList(mem, "meetings")
    IN \A i, j \in 1..Len(meetings) :
          i # j => meetings[i].meeting_id # meetings[j].meeting_id

\* C5: a process_meeting call that returns has appended exactly one record to
\* the meetings list before the trim; that record is the last one of the
\* saved list and is the record returned.
MeetingCallAppendsOne ==
    [][(lastOp' \in MeetingOps /\ steps' = steps + 1 /\ ret'.kind = "record") =>
          /\ GetList(mem', "meetings")
                = LastN(Append(GetList(mem, "meetings"), ret'.value), MEETINGS_KEPT)
          /\ Last(GetList(mem', "meetings")) = ret'.value]_vars

\* a call has returned its record after the list was already full
MeetingAppendedToFullList ==
    /\ lastOp = "process_meeting"
    /\ ret.kind = "record"
    /\ Len(hist.meetings) > MEETINGS_KEPT
    /\ Last(GetList(mem, "meetings")) = ret.value
    /\ ret.value.meeting_id \notin {<<"old", i>> : i \in 1..MEETINGS_KEPT}

Failed(results) == \E i \in 1..Len(results) : results[i] # "ok"

\* C6: a process_meeting call with non-empty actions_for_me, follow_ups or
\* deadlines makes one create_task request per element, titled with the
\* element's text, and appends one inbox entry per element with that text
\* as content: no more and no fewer.
OneRequestPerElement ==
    (lastOp \in MeetingOps /\ ret.kind = "record") =>
        LET elements == Elements(ret.value)
            n == Len(elements)
            inbox == GetList(mem, "inbox")
        IN /\ Len(taskReqs) = n
           /\ \A i \in 1..n : taskReqs[i].title = elements[i]
           /\ n <= Len(inbox)
           /\ \A i \in 1..n : LastN(inbox, n)[i].content = elements[i]

\* C7: when create_task fails inside process_meeting, by a failure result or
\* by an exception, the meeting record with its signals as extracted and all
\* its inbox entries are still appended, saved and returned.
TaskFailureKeepsMeeting ==
    (lastOp \in MeetingOps /\ Failed(taskResults)) =>
        /\ ret.kind = "record"
        /\ ret.value = MeetingRecord(arg, ret.value.date)
        /\ GetList(mem, "meetings") # <<>>
        /\ Last(GetList(mem, "meetings")) = ret.value
        /\ Len(Elements(ret.value)) <= Len(GetList(mem, "inbox"))
        /\ LastN(GetList(mem, "inbox"), Len(Elements(ret.value)))
              = MeetingInboxEntries(ret.value)

\* create_task raised on the first of two follow-ups and the record and both
\* inbox entries are in the saved document
MeetingSavedAfterRaise ==
    /\ lastOp = "process_meeting"
    /\ taskResults = <<"raise">>
    /\ Len(Elements(ret.value)) = 2
    /\ Last(GetList(mem, "meetings")) = ret.value
    /\ LastN(GetList(mem, "inbox"), 2) = MeetingInboxEntries(ret.value)

\* C8: inside process_meeting a create_task call that fails does not keep
\* the calls for the remaining elements from being made.
FailedTaskDoesNotStopTheRest ==
    (lastOp \in MeetingOps /\ ret.kind = "record") =>
        \A i \in 1..Len(taskResults) :
            (taskResults[i] # "ok" /\ i < Len(Elements(ret.value)))
                => Len(taskReqs) > i

\* C9: when create_task fails inside process_capture, the capture entry with
\* all the parsed items is still appended to captures and saved.
TaskFailureKeepsCapture ==
    (lastOp = "process_capture" /\ Failed(taskResults)) =>
        LET captures == GetList(mem, "captures")
            items == ParsedCaptures[arg]
        IN /\ captures # <<>>
           /\ Len(Last(captures).items) = Len(items)
           /\ \A i \in 1..Len(items) : Last(captures).items[i].raw = items[i].raw

\* the operations that complete an inbox entry: the source has none
CompletionOps == {}

\* C10: while an inbox record stays in the store its status stays as it is
\* or goes from open to done; nothing turns done into open, and nothing but
\* an explicit completion changes a stored record's status.
InboxStatusOnlyCompletes ==
    [][LET old == GetList(mem, "inbox")
           new == GetList(mem', "inbox")
           offOld == Len(hist.inbox) - Len(old)
           offNew == Len(hist'.inbox) - Len(new)
       IN \A g \in 1..Len(hist.inbox) :
            (g > offOld /\ g > offNew) =>
                \/ new[g - offNew].status = old[g - offOld].status
                \/ /\ old[g - offOld].status = "open"
                   /\ new[g - offNew].status = "done"
                   /\ lastOp' \in CompletionOps]_vars

\* entries completed earlier and entries still open are both in the inbox
\* after a meeting added entries and pushed the oldest out
StatusesKeptAcrossAppend ==
    /\ lastOp \in MeetingOps
    /\ Len(hist.inbox) > INBOX_KEPT
    /\ \E i, j \in 1..Len(GetList(mem, "inbox")) :
          /\ mem.inbox[i] = OldInbox(4)
          /\ mem.inbox[j] = OldInbox(5)

-----------------------------------------------------------------------------
(* Properties of the concurrent processes (SpecConc) *)

\* C3: with processes that are not ordered, a process can save a document
\* that lacks what another process saved after the first one loaded; the
\* file then holds the document of the last process to save, and the other
\* process's appends are lost.
LastSaveWins ==
    lastSave.proc # "none" =>
        /\ mem = lastSave.data
        /\ \A pair \in lastSave.missed :
              (/\ pair[2] \notin Range(GetList(lastSave.loaded, pair[1]))
               /\ pair[2] \notin Range(lastSave.appends[pair[1]]))
                  => pair[2] \notin Range(GetList(mem, pair[1]))

\* a record saved by another process between the last saver's load and its
\* save is not in the file
UpdateLost ==
    /\ lastSave.proc # "none"
    /\ \E pair \in lastSave.missed :
          /\ pair[2] \in Range(hist[pair[1]])
          /\ pair[2] \notin Range(GetList(mem, pair[1]))

-----------------------------------------------------------------------------
(* The shape of the stored records *)

NoDuplicates(s) == \A i, j \in 1..Len(s) : i # j => s[i] # s[j]

\* C12: every signal list of a meeting record saved by process_meeting is
\* free of repeated elements, also when action_items carries the same text
\* more than once.
SignalListsDuplicateFree ==
    \A i \in 1..Len(GetList(mem, "meetings")) :
        \A category \in DOMAIN mem.meetings[i].signals :
            NoDuplicates(mem.meetings[i].signals[category])

-----------------------------------------------------------------------------
(* The action items process_meeting takes over *)

\* a meeting was processed and its action_items were a list
MeetingProcessed ==
    /\ lastOp \in MeetingOps
    /\ ret.kind = "record"
    /\ arg.action_items.isList

\* the text an action item carries
TextOf(item) == IF item.kind = "str" THEN item.text ELSE ItemText(item)

\* a text longer than 10 and shorter than 500 characters
GoodLength(text) == Len(text) > ACTION_MIN_LEN /\ Len(text) < ACTION_MAX_LEN

\* a text with an opening brace or with the word speaker in any letter case
NoiseMarked(text) == Contains(<<"{">>, text) \/ Contains(speaker, Lower(text))

NoAssignee(item) == item.kind = "str" \/ ~item.hasAssignee

\* the assignee's name holds an alias or the email holds a fragment
AssignedToMe(item) ==
    /\ item.kind = "dict"
    /\ item.hasAssignee
    /\ \/ \E i \in 1..Len(my_names) : Contains(my_names[i], Lower(item.name))
       \/ \E i \in 1..Len(my_emails) : Contains(my_emails[i], Lower(item.email))

StoredFollowUps == ret.value.signals.follow_ups

AssignedItemsStored ==
    MeetingProcessed =>
        \A i \in 1..Len(arg.action_items.items) :
            LET item == arg.action_items.items[i]
            IN (AssignedToMe(item) /\ ~NoiseMarked(TextOf(item)))
                  => Strip(TextOf(item)) \in Range(StoredFollowUps)

\* C14 as amended: such an item is in follow_ups, stripped of surrounding
\* whitespace, when its text is longer than 10 and shorter than 500
\* characters.
AssignedItemsOfGoodLengthStored ==
    MeetingProcessed =>
        \A i \in 1..Len(arg.action_items.items) :
            LET item == arg.action_items.items[i]
            IN (AssignedToMe(item) /\ GoodLength(TextOf(item))
                  /\ ~NoiseMarked(TextOf(item)))
                  => Strip(TextOf(item)) \in Range(StoredFollowUps)

\* an item matched by its assignee's email alone was stored, and the record
\* is in the saved document
EmailMatchedItemStored ==
    /\ MeetingProcessed
    /\ \E i \in 1..Len(arg.action_items.items) :
          LET item == arg.action_items.items[i]
          IN /\ AssignedToMe(item)
             /\ item.name = <<>>
             /\ TextOf(item) \in Range(StoredFollowUps)
    /\ Last(GetList(mem, "meetings")).signals.follow_ups = StoredFollowUps

\* the item is assigned, and to someone else
AssignedElsewhere(item) ==
    item.kind = "dict" /\ item.hasAssignee /\ ~AssignedToMe(item)

\* C15: no element of follow_ups comes from an item whose assignee is present
\* and matches no alias and no email fragment, and no element holds a brace
\* or the word speaker in any letter case.
FollowUpsMineAndClean ==
    MeetingProcessed =>
        \A k \in 1..Len(StoredFollowUps) :
            /\ \E i \in 1..Len(arg.action_items.items) :
                  /\ ~AssignedElsewhere(arg.action_items.items[i])
                  /\ Strip(TextOf(arg.action_items.items[i])) = StoredFollowUps[k]
            /\ ~Contains(<<"{">>, StoredFollowUps[k])
            /\ ~Contains(<<"}">>, StoredFollowUps[k])
            /\ ~Contains(speaker, Lower(StoredFollowUps[k]))

-----------------------------------------------------------------------------
(* A memory file that cannot be read *)

\* the step is a call of process_meeting, or a call of process_capture that
\* parsed at least one item and so went on to load_memory
CallThatLoads ==
    /\ steps' = steps + 1
    /\ \/ lastOp' \in MeetingOps /\ ret'.kind # "http"
       \/ lastOp' = "process_capture" /\ parse_capture(arg') # <<>>

\* C16: when the memory file cannot be loaded, process_meeting and
\* process_capture end with the read error: no create_task request is made,
\* the file is not written, and the call does not go on with an empty
\* document.
ReadErrorEndsTheCall ==
    [][(mem = Unreadable /\ CallThatLoads) =>
          /\ ret'.kind = "raised"
          /\ ret'.error = "read"
          /\ taskReqs' = <<>>
          /\ mem' = mem
          /\ hist' = hist]_vars

\* process_meeting met the unreadable file with a follow-up to turn into a
\* task
MeetingCallMetReadError ==
    /\ lastOp = "process_meeting"
    /\ mem = Unreadable
    /\ ret = [kind |-> "raised", error |-> "read"]
    /\ MeetingSignals(arg.action_items).follow_ups # <<>>
    /\ taskReqs = <<>>

-----------------------------------------------------------------------------
(* curated_parser._extract_date and _find_date_with_day. A day is counted *)
(* from 2024-01-01, a Monday, which is day 1; datetime's calendar gives   *)
(* the year, month and day of the month of each.                          *)
\* the length a signal has to exceed
SIGNAL_MIN_LEN == 5

\* the last day `today` is drawn from: 2025-01-31
MaxToday == 397

\* the largest day number written in a text
MaxDayNumber == 32

\* range(60) of _find_date_with_day
WINDOW_DAYS == 60

\* calendar.monthrange: the number of days of month m of year y
DaysInMonth(y, m) ==
    LET leap == (y % 4 = 0 /\ y % 100 # 0) \/ y % 400 = 0
    IN IF m = 2 THEN (IF leap THEN 29 ELSE 28)
       ELSE IF m \in {4, 6, 9, 11} THEN 30 ELSE 31

\* the date n - 1 days after the first of month m of year y
RECURSIVE DateFrom(_, _, _)
DateFrom(y, m, n) ==
    IF n <= DaysInMonth(y, m) THEN [year |-> y, month |-> m, day |-> n]
    ELSE DateFrom(IF m = 12 THEN y + 1 ELSE y, IF m = 12 THEN 1 ELSE m + 1,
                  n - DaysInMonth(y, m))

\* the dates of the days that today + timedelta(days=i) can reach
Calendar == [n \in 1..(MaxToday + WINDOW_DAYS + 8) |-> DateFrom(2024, 1, n)]

\* datetime.weekday(): Monday is 0
Weekday(n) == (n - 1) % 7

\* strftime('%Y-%m-%d')
FormatDate(date) == <<date.year, date.month, date.day>>

weekdays ==
    << <<"m","o","n","d","a","y">>,
       <<"t","u","e","s","d","a","y">>,
       <<"w","e","d","n","e","s","d","a","y">>,
       <<"t","h","u","r","s","d","a","y">>,
       <<"f","r","i","d","a","y">>,
       <<"s","a","t","u","r","d","a","y">>,
       <<"s","u","n","d","a","y">> >>

\* r'the (\d{1,2})(?:st|nd|rd|th)?' matched at position i: \d{1,2} is greedy
\* and so is the optional suffix
TheDayAt(text, i) ==
    LET at(j, lit) == j >= 1 /\ StartsWith(From(text, j), lit)
        digit(j) == j <= Len(text) /\ IsDigit(text[j])
        n == IF digit(i + 4) THEN (IF digit(i + 5) THEN 2 ELSE 1) ELSE 0
        value(c) == CHOOSE v \in 0..9 :
                        <<"0","1","2","3","4","5","6","7","8","9">>[v + 1] = c
        day == IF n = 2 THEN 10 * value(text[i + 4]) + value(text[i + 5])
               ELSE value(text[i + 4])
        suffix == IF \E x \in {<<"s","t">>, <<"n","d">>, <<"r","d">>, <<"t","h">>} :
                        at(i + 4 + n, x)
                  THEN 2 ELSE 0
    IN IF at(i, <<"t","h","e"," ">>) /\ n > 0
       THEN [found |-> TRUE, day |-> day, text |-> SubSeq(text, i, i + 3 + n + suffix)]
       ELSE NoMatch

\* r'(monday|...|sunday) the (\d{1,2})(?:st|nd|rd|th)?' matched at position i
WeekdayDateAt(text, i) ==
    LET at(k) == /\ StartsWith(From(text, i), weekdays[k] \o <<" ">>)
                 /\ TheDayAt(text, i + Len(weekdays[k]) + 1).found
    IN IF \E k \in 1..Len(weekdays) : at(k)
       THEN LET k == CHOOSE k \in 1..Len(weekdays) : at(k)
                rest == TheDayAt(text, i + Len(weekdays[k]) + 1)
            IN [found |-> TRUE, weekday_name |-> weekdays[k], day |-> rest.day,
                text |-> weekdays[k] \o <<" ">> \o rest.text]
       ELSE NoMatch

\* _find_date_with_day(day, weekday_name) when datetime.now() is day `now`
find_date_with_day(day, weekday_name, now) ==
    LET target_weekday == (CHOOSE k \in 1..Len(weekdays) : weekdays[k] = weekday_name) - 1
        hits == {i \in 0..(WINDOW_DAYS - 1) :
                    /\ Calendar[now + i].day = day
                    /\ Weekday(now + i) = target_weekday}
    IN IF hits = {} THEN NoMatch
       ELSE [found |-> TRUE,
             date |-> FormatDate(Calendar[now + (CHOOSE i \in hits :
                                                   \A j \in hits : i <= j)])]

\* lines 164-174 with the test of line 166 turned into target <= today
TheDayRuleStrict(day, now) ==
    LET t == Calendar[now]
        ny == IF t.month = 12 THEN t.year + 1 ELSE t.year
        nm == IF t.month = 12 THEN 1 ELSE t.month + 1
        valid(y, m) == day >= 1 /\ day <= DaysInMonth(y, m)
    IN IF ~valid(t.year, t.month) THEN NoMatch
       ELSE IF day <= t.day
            THEN (IF valid(ny, nm)
                  THEN [found |-> TRUE, date |-> FormatDate([year |-> ny, month |-> nm, day |-> day])]
                  ELSE NoMatch)
       ELSE [found |-> TRUE, date |-> FormatDate([year |-> t.year, month |-> t.month, day |-> day])]

\* lines 164-174: the date the "the 20th" rule gives for `day`, NoMatch when
\* one of the replace calls raises ValueError (a day the month does not have)
TheDayRule(day, now) ==
    LET t == Calendar[now]
        ny == IF t.month = 12 THEN t.year + 1 ELSE t.year
        nm == IF t.month = 12 THEN 1 ELSE t.month + 1
        valid(y, m) == day >= 1 /\ day <= DaysInMonth(y, m)
    IN IF ~valid(t.year, t.month) THEN NoMatch
       ELSE IF day < t.day
            THEN (IF valid(ny, nm)
                  THEN [found |-> TRUE, date |-> FormatDate([year |-> ny, month |-> nm, day |-> day])]
                  ELSE NoMatch)
       ELSE [found |-> TRUE, date |-> FormatDate([year |-> t.year, month |-> t.month, day |-> day])]

\* lines 176-203 with the test of line 182 turned into days_ahead < 0
LaterRulesFromToday(text, now) ==
    IF \E k \in 1..Len(weekdays) : Contains(weekdays[k], text)
    THEN LET k == CHOOSE k \in 1..Len(weekdays) :
                    /\ Contains(weekdays[k], text)
                    /\ \A j \in 1..(k - 1) : ~Contains(weekdays[j], text)
             diff == (k - 1) - Weekday(now)
             days_ahead == IF diff < 0 THEN diff + 7 ELSE diff
         IN [found |-> TRUE, date |-> FormatDate(Calendar[now + days_ahead]),
             text |-> weekdays[k]]
    ELSE IF Contains(<<"t","o","m","o","r","r","o","w">>, text)
    THEN [found |-> TRUE, date |-> FormatDate(Calendar[now + 1]), text |-> <<"t","o","m","o","r","r","o","w">>]
    ELSE IF Contains(<<"n","e","x","t"," ","w","e","e","k">>, text)
    THEN [found |-> TRUE, date |-> FormatDate(Calendar[now + 7]), text |-> <<"n","e","x","t"," ","w","e","e","k">>]
    ELSE IF Contains(<<"t","h","i","s"," ","w","e","e","k">>, text)
    THEN LET d == (4 - Weekday(now)) % 7
             days_until_friday == IF d = 0 THEN 7 ELSE d
         IN [found |-> TRUE, date |-> FormatDate(Calendar[now + days_until_friday]),
             text |-> <<"t","h","i","s"," ","w","e","e","k">>]
    ELSE NoMatch

\* lines 176-203: weekday names, tomorrow, next week, this week
LaterRules(text, now) ==
    IF \E k \in 1..Len(weekdays) : Contains(weekdays[k], text)
    THEN LET k == CHOOSE k \in 1..Len(weekdays) :
                    /\ Contains(weekdays[k], text)
                    /\ \A j \in 1..(k - 1) : ~Contains(weekdays[j], text)
             diff == (k - 1) - Weekday(now)
             days_ahead == IF diff <= 0 THEN diff + 7 ELSE diff
         IN [found |-> TRUE, date |-> FormatDate(Calendar[now + days_ahead]),
             text |-> weekdays[k]]
    ELSE IF Contains(<<"t","o","m","o","r","r","o","w">>, text)
    THEN [found |-> TRUE, date |-> FormatDate(Calendar[now + 1]), text |-> <<"t","o","m","o","r","r","o","w">>]
    ELSE IF Contains(<<"n","e","x","t"," ","w","e","e","k">>, text)
    THEN [found |-> TRUE, date |-> FormatDate(Calendar[now + 7]), text |-> <<"n","e","x","t"," ","w","e","e","k">>]
    ELSE IF Contains(<<"t","h","i","s"," ","w","e","e","k">>, text)
    THEN LET d == (4 - Weekday(now)) % 7
             days_until_friday == IF d = 0 THEN 7 ELSE d
         IN [found |-> TRUE, date |-> FormatDate(Calendar[now + days_until_friday]),
             text |-> <<"t","h","i","s"," ","w","e","e","k">>]
    ELSE NoMatch

\* _extract_date(text) when datetime.now() is day `now`; NoMatch is None.
\* re.search gives the match at the leftmost position that has one.
extract_date(text, now) ==
    LET search(At(_, _)) ==
            LET hits == {i \in 1..Len(text) : At(text, i).found}
            IN IF hits = {} THEN NoMatch
               ELSE At(text, CHOOSE i \in hits : \A j \in hits : i <= j)
        first == search(WeekdayDateAt)
        target_date == IF first.found
                       THEN find_date_with_day(first.day, first.weekday_name, now)
                       ELSE NoMatch
        second == search(TheDayAt)
        target == IF second.found THEN TheDayRule(second.day, now) ELSE NoMatch
    IN IF target_date.found
       THEN [found |-> TRUE, date |-> target_date.date, text |-> first.text]
       ELSE IF target.found
       THEN [found |-> TRUE, date |-> target.date, text |-> second.text]
       ELSE LaterRules(text, now)

-----------------------------------------------------------------------------
(* The functions on text, each applied to an input drawn at the start *)
\* the patterns of PATTERNS that are a run of alternatives, each followed by
\* \s+ ("s") or [:\s]+ ("cs"), then (.+?) and (?:\.|$) or (?:\.|$|\?)
PATTERNS ==
    [action_for_me |->
       <<[parts |-> <<[alts |-> <<<<"s","u","p","p","o","r","t">>>>, sep |-> "s"],
                     [alts |-> <<<<"n","e","e","d","s"," ","t","o">>, <<"s","h","o","u","l","d">>, <<"w","i","l","l">>, <<"t","o">>>>, sep |-> "s"]>>,
          term |-> {"."}],
         [parts |-> <<[alts |-> <<<<"c","a","n">>>>, sep |-> "s"],
                     [alts |-> <<<<"l","u","c","a","s">>, <<"s","u","p","p","o","r","t">>>>, sep |-> "s"]>>,
          term |-> {".", "?"}]>>,
     decision |->
       <<[parts |-> <<[alts |-> <<<<"d","e","c","i","s","i","o","n">>>>, sep |-> "cs"]>>,
          term |-> {"."}],
         [parts |-> <<[alts |-> <<<<"w","e","'","r","e">>, <<"w","e"," ","a","r","e">>>>, sep |-> "s"],
                     [alts |-> <<<<"g","o","i","n","g">>>>, sep |-> "s"],
                     [alts |-> <<<<"t","o">>, <<"w","i","t","h">>>>, sep |-> "s"]>>,
          term |-> {"."}],
         [parts |-> <<[alts |-> <<<<"f","i","n","a","l">>, <<"a","g","r","e","e","d">>>>, sep |-> "cs"]>>,
          term |-> {"."}],
         [parts |-> <<[alts |-> <<<<"t","h","e"," ","p","l","a","n"," ","i","s">>, <<"p","l","a","n"," ","i","s"," ","t","o">>>>, sep |-> "s"]>>,
          term |-> {"."}]>>,
     commitment |->
       <<[parts |-> <<[alts |-> <<<<"i","'","l","l">>, <<"i"," ","w","i","l","l">>>>, sep |-> "s"],
                     [alts |-> <<<<"g","e","t">>, <<"s","e","n","d">>, <<"s","h","a","r","e">>, <<"p","r","o","v","i","d","e">>, <<"f","o","l","l","o","w"," ","u","p">>, <<"c","h","e","c","k">>, <<"l","o","o","k"," ","i","n","t","o">>>>, sep |-> "s"]>>,
          term |-> {"."}],
         [parts |-> <<[alts |-> <<<<"i","'","l","l">>, <<"i"," ","w","i","l","l">>>>, sep |-> "s"],
                     [alts |-> <<<<"h","a","v","e">>>>, sep |-> "s"],
                     [alts |-> <<<<"t","h","a","t">>, <<"t","h","i","s">>, <<"i","t">>>>, sep |-> "s"]>>,
          term |-> {"."}],
         [parts |-> <<[alts |-> <<<<"l","e","t"," ","m","e">>>>, sep |-> "s"]>>,
          term |-> {"."}]>>,
     follow_up |->
       <<[parts |-> <<[alts |-> <<<<"f","o","l","l","o","w"," ","u","p">>, <<"f","o","l","l","o","w","i","n","g"," ","u","p">>>>, sep |-> "s"],
                     [alts |-> <<<<"o","n">>, <<"a","b","o","u","t">>, <<"w","i","t","h">>>>, sep |-> "s"]>>,
          term |-> {"."}],
         [parts |-> <<[alts |-> <<<<"n","e","x","t"," ","s","t","e","p","s">>, <<"n","e","x","t"," ","s","t","e","p">>, <<"a","c","t","i","o","n"," ","i","t","e","m","s">>, <<"a","c","t","i","o","n"," ","i","t","e","m">>>>, sep |-> "cs"]>>,
          term |-> {"."}],
         [parts |-> <<[alts |-> <<<<"t","o"," ","d","o">>, <<"t","o","d","o">>>>, sep |-> "cs"]>>,
          term |-> {"."}]>>,
     deadline |->
       <<[parts |-> <<[alts |-> <<<<"d","u","e">>, <<"d","e","a","d","l","i","n","e">>>>, sep |-> "cs"]>>,
          term |-> {"."}],
         [parts |-> <<[alts |-> <<<<"n","e","e","d">>, <<"n","e","e","d","s">>>>, sep |-> "s"],
                     [alts |-> <<<<"t","o"," ","b","e">>, <<"t","h","i","s">>>>, sep |-> "s"],
                     [alts |-> <<<<"d","o","n","e">>, <<"r","e","a","d","y">>, <<"c","o","m","p","l","e","t","e","d">>>>, sep |-> "s"],
                     [alts |-> <<<<"b","y">>>>, sep |-> "s"]>>,
          term |-> {"."}]>>,
     blocker |->
       <<[parts |-> <<[alts |-> <<<<"b","l","o","c","k","e","d">>, <<"w","a","i","t","i","n","g">>>>, sep |-> "s"],
                     [alts |-> <<<<"o","n">>, <<"f","o","r">>>>, sep |-> "s"]>>,
          term |-> {"."}],
         [parts |-> <<[alts |-> <<<<"c","a","n","'","t">>, <<"c","a","n","n","o","t">>>>, sep |-> "s"],
                     [alts |-> <<<<"p","r","o","c","e","e","d">>, <<"m","o","v","e"," ","f","o","r","w","a","r","d">>, <<"c","o","n","t","i","n","u","e">>>>, sep |-> "s"],
                     [alts |-> <<<<"u","n","t","i","l">>, <<"w","i","t","h","o","u","t">>>>, sep |-> "s"]>>,
          term |-> {"."}],
         [parts |-> <<[alts |-> <<<<"d","e","p","e","n","d","e","n","c","y">>, <<"d","e","p","e","n","d","e","n","c","i","e","s">>>>, sep |-> "cs"]>>,
          term |-> {"."}]>>]

\* the stripped captures of all the patterns of one kind, in the order of
\* the loops
Captures(kind, text) ==
    LET RECURSIVE from(_)
        from(k) == IF k > Len(PATTERNS[kind]) THEN <<>>
                   ELSE FindAll(PATTERNS[kind][k], text, 1) \o from(k + 1)
    IN from(1)

\* the test of lines 152, 158, 164, 170 and 182 with >= for >
KeptSignalFromFive(key, signal) ==
    signal # <<>> /\ (key = "deadlines" \/ Len(signal) >= SIGNAL_MIN_LEN)

\* "if action and len(action) > 5", and "if deadline" at line 176
KeptSignal(key, signal) ==
    signal # <<>> /\ (key = "deadlines" \/ Len(signal) > SIGNAL_MIN_LEN)

\* extract_signals(transcript) when load_entities() holds known_customers:
\* the dicts it can return
extract_signals(transcript, known_customers) ==
    LET text == Lower(transcript)
        kept(key, kind) == SelectSeq(Captures(kind, text),
                                     LAMBDA signal : KeptSignal(key, signal))
        PROJECT_KEYWORDS ==
            <<<<"t","r","u","e","t","o","u","r">>,
              <<"e","m","b","e","d">>,
              <<"i","n","t","e","g","r","a","t","i","o","n">>,
              <<"a","p","i">>,
              <<"w","e","b","h","o","o","k">>,
              <<"b","e","t","a">>,
              <<"p","i","l","o","t">>,
              <<"m","i","g","r","a","t","i","o","n">>,
              <<"r","o","l","l","o","u","t">>,
              <<"l","a","u","n","c","h">>,
              <<"d","a","s","h","b","o","a","r","d">>,
              <<"r","e","p","o","r","t","i","n","g">>,
              <<"a","n","a","l","y","t","i","c","s">>,
              <<"a","u","t","o","m","a","t","i","o","n">>>>
        mentioned(names) == SelectSeq(names, LAMBDA name : Contains(name, text))
    IN IF transcript = <<>> THEN {EmptySignals}
       ELSE {[actions_for_me |-> a, decisions |-> d, commitments |-> c,
              follow_ups |-> f, deadlines |-> l, blockers |-> b,
              customers_mentioned |-> cm, projects_mentioned |-> pm] :
                a \in Orderings(kept("actions_for_me", "action_for_me")),
                d \in Orderings(kept("decisions", "decision")),
                c \in Orderings(kept("commitments", "commitment")),
                f \in Orderings(kept("follow_ups", "follow_up")),
                l \in Orderings(kept("deadlines", "deadline")),
                b \in Orderings(kept("blockers", "blocker")),
                cm \in Orderings(mentioned([i \in 1..Len(known_customers) |->
                                               Lower(known_customers[i])])),
                pm \in Orderings(mentioned(PROJECT_KEYWORDS))}

\* the transcripts extract_signals is applied to, with the customers of
\* entities.json
SignalInputs ==
    {[fn |-> "extract_signals", customers |-> <<>>,
      text |-> <<"D","e","c","i","s","i","o","n",":"," ","s","h","i","p"," ","i","t","."," ","D","e","c","i","s","i","o","n",":"," ","g","o"," ","l","i","v","e","."," ","D","e","c","i","s","i","o","n",":"," ","s","h","i","p"," ","i","t",".">>],
     [fn |-> "extract_signals", customers |-> <<>>,
      text |-> <<"S","u","p","p","o","r","t"," ","s","h","o","u","l","d"," ","c","a","l","l","."," ","L","e","t"," ","m","e"," ","t","h","i","n","k","."," ","D","u","e",":"," ","e","o","d">>],
     [fn |-> "extract_signals", customers |-> <<>>,
      text |-> <<"B","l","o","c","k","e","d"," ","o","n"," ","l","e","g","a","l"," ","r","e","v","i","e","w","."," ","N","e","x","t"," ","s","t","e","p","s",":"," ","e","m","a","i","l"," ","D","a","n","a","?">>],
     [fn |-> "extract_signals", customers |-> <<>>,
      text |-> <<"C","a","n"," ","s","u","p","p","o","r","t"," "," ","c","h","e","c","k"," ","t","h","e"," ","b","e","t","a"," ","r","o","l","l","o","u","t","?"," ","W","e"," ","a","r","e"," ","g","o","i","n","g"," ","w","i","t","h"," ","p","l","a","n"," ","b",".">>],
     [fn |-> "extract_signals", customers |-> <<>>,
      text |-> <<>>],
     [fn |-> "extract_signals", customers |-> <<<<"A","c","m","e"," ","C","o","r","p">>>>,
      text |-> <<"D","e","a","d","l","i","n","e",":"," ","f","r","i","d","a","y","."," ","W","a","i","t","i","n","g"," ","f","o","r"," ","A","c","m","e"," ","C","o","r","p">>],
     [fn |-> "extract_signals", customers |-> <<>>,
      text |-> <<"F","i","n","a","l",":"," ","a","l","p","h","a","."," ","A","g","r","e","e","d",":"," ","a","l","p","h","a","s",".">>],
     [fn |-> "extract_signals", customers |-> <<<<"A","c","m","e"," ","C","o","r","p">>>>,
      text |-> <<"t","o","d","o",":"," "," "," ","w","a","t","e","r"," ","p","l","a","n","t","s"," "," ","."," ","I"," ","w","i","l","l"," ","s","e","n","d"," ","t","h","e"," ","d","e","c","k","."," ","I"," ","w","i","l","l"," ","s","e","n","d"," ","t","h","e"," ","d","e","c","k">>]}

\* "8th", "21st", "0th": the day number as it is written
DayText(n) ==
    LET digit(v) == <<"0","1","2","3","4","5","6","7","8","9">>[v + 1]
    IN (IF n >= 10 THEN <<digit(n \div 10), digit(n % 10)>> ELSE <<digit(n)>>)
       \o (IF n % 10 = 1 /\ n # 11 THEN <<"s","t">>
           ELSE IF n % 10 = 2 /\ n # 12 THEN <<"n","d">>
           ELSE IF n % 10 = 3 /\ n # 13 THEN <<"r","d">>
           ELSE <<"t","h">>)


\* the texts date resolution is applied to
DateInputs ==
        \* "friday the 8th" and, with no weekday, "the 8th"
    LET DayPhrase(weekday_name, n) ==
            [fn |-> "extract_date", form |-> "the",
             weekday_name |-> weekday_name, n |-> n,
             text |-> (IF weekday_name = <<>> THEN <<>> ELSE weekday_name \o <<" ">>)
                      \o <<"t","h","e"," ">> \o DayText(n)]
    IN
        {DayPhrase(w, n) : w \in {<<>>, weekdays[1], weekdays[5]}, n \in 0..MaxDayNumber}
        \cup {[fn |-> "extract_date", form |-> "other", weekday_name |-> <<>>, n |-> 0,
               text |-> text] :
                text \in {<<"t","o","m","o","r","r","o","w">>, <<"n","e","x","t"," ","w","e","e","k">>, <<"t","h","i","s"," ","w","e","e","k">>, <<"l","u","n","c","h"," ","a","t"," ","n","o","o","n">>}}
\* the captures parse_capture is applied to: those of process_capture and
\* lines that are speculative and imperative or dated at once
TypingInputs ==
    {[fn |-> "parse_capture", text |-> text] :
        text \in CaptureInputs \cup
                 {<<"m","a","y","b","e"," ","c","a","l","l"," ","b","y"," ","f","r","i","d","a","y">>,
                  <<"R","e","s","e","a","r","c","h"," ","p","r","i","c","i","n","g","\n","s","e","n","d"," ","d","e","c","k"," ","d","u","e"," ","3","/","1","4">>,
                  <<"c","o","u","l","d"," ","b","e"," ","n","i","c","e">>,
                  <<"-"," ","C","o","n","s","i","d","e","r"," ","a"," ","b","e","t","a"," ","b","e","f","o","r","e"," ","e","o","w","\n","-"," ","t","o","d","o",":"," ","b","o","o","k"," ","r","o","o","m">>}}
    \cup {[fn |-> "extract_date", form |-> "bare", weekday_name |-> w, n |-> 0,
           text |-> <<"o","n"," ">> \o w] : w \in {weekdays[3], weekdays[7]}}

\* the state before one of the functions is applied to the input drawn
InitPure ==
    /\ arg \in DateInputs \cup TypingInputs \cup SignalInputs
    /\ today \in 1..MaxToday
    /\ arg.fn # "extract_date" => today = 1
    /\ mem = BaseDoc
    /\ steps = 0
    /\ lastOp = "none"
    /\ ret = [kind |-> "none"]
    /\ taskReqs = <<>>
    /\ taskResults = <<>>
    /\ hist = [k \in BoundedKeys |-> <<>>]
    /\ meetings_store = <<>>
    /\ nGenerated = 0
    /\ pc = [p \in Procs |-> "idle"]
    /\ loaded = [p \in Procs |-> [doc |-> <<>>, call |-> NoCall]]
    /\ missed = [p \in Procs |-> {}]
    /\ lastSave = [proc |-> "none"]
    /\ entities = [customers |-> <<>>]
    /\ contacted = <<>>
    /\ disk = <<>>
    /\ saver = [state |-> "idle"]
    /\ SlackStart

\* date_info = _extract_date(text)
ExtractDate ==
    /\ lastOp = "none"
    /\ arg.fn = "extract_date"
    /\ lastOp' = "extract_date"
    /\ ret' = [kind |-> "date", value |-> extract_date(arg.text, today)]
    /\ UNCHANGED <<auxVars, mem, today, steps, arg, taskReqs, taskResults, hist,
                   meetings_store, nGenerated, procVars>>
\* items = parse_capture(text)
ParseCapture ==
    /\ lastOp = "none"
    /\ arg.fn = "parse_capture"
    /\ lastOp' = "parse_capture"
    /\ ret' = [kind |-> "items", value |-> parse_capture(arg.text)]
    /\ UNCHANGED <<auxVars, mem, today, steps, arg, taskReqs, taskResults, hist,
                   meetings_store, nGenerated, procVars>>
\* signals = extract_signals(transcript)
ExtractSignals ==
    /\ lastOp = "none"
    /\ arg.fn = "extract_signals"
    /\ lastOp' = "extract_signals"
    /\ \E signals \in extract_signals(arg.text, arg.customers) :
          ret' = [kind |-> "signals", value |-> signals]
    /\ UNCHANGED <<auxVars, mem, today, steps, arg, taskReqs, taskResults, hist,
                   meetings_store, nGenerated, procVars>>

NextPure ==
    \/ ExtractDate
    \/ ParseCapture
    \/ ExtractSignals

SpecPure == InitPure /\ [][NextPure]_vars

-----------------------------------------------------------------------------
(* Date resolution *)

\* d1 is not before d2, both as year, month, day
NotBefore(d1, d2) ==
    \/ d1[1] > d2[1]
    \/ d1[1] = d2[1] /\ d1[2] > d2[2]
    \/ d1[1] = d2[1] /\ d1[2] = d2[2] /\ d1[3] >= d2[3]

\* the days of the 60-day window from today that are a `weekday_name` and
\* the n-th of their month
WindowHits(weekday_name, n) ==
    {d \in today..(today + WINDOW_DAYS - 1) :
        /\ Calendar[d].day = n
        /\ weekdays[Weekday(d) + 1] = weekday_name}

\* C19: for a text "<weekday> the <N>" date resolution gives the first date
\* of the 60-day window from today whose weekday and day of the month both
\* match, and gives no date when the window has none.
WeekdayDateWithinWindow ==
    (lastOp = "extract_date" /\ arg.form = "the" /\ arg.weekday_name # <<>>) =>
        LET hits == WindowHits(arg.weekday_name, arg.n)
        IN IF hits = {} THEN ~ret.value.found
           ELSE /\ ret.value.found
                /\ \E d \in hits :
                      /\ \A e \in hits : d <= e
                      /\ ret.value.date = <<Calendar[d].year, Calendar[d].month,
                                            Calendar[d].day>>

\* C20: for a text holding "the <N>" where no weekday and day of the month
\* were matched in the window, the "the <N>" rule gives day N of the current
\* month when that day is today or later, otherwise day N of the following
\* month (January of the next year after December); a date it gives has N as
\* its day of the month and is not before today; the rule gives nothing when
\* the month aimed at has no day N.
TheDayThisOrNextMonth ==
    (/\ lastOp = "extract_date" /\ arg.form = "the"
     /\ (arg.weekday_name = <<>> \/ WindowHits(arg.weekday_name, arg.n) = {})) =>
        LET t == Calendar[today]
            later == arg.n < t.day
            y == IF later /\ t.month = 12 THEN t.year + 1 ELSE t.year
            m == IF ~later THEN t.month ELSE IF t.month = 12 THEN 1 ELSE t.month + 1
            matched == <<"t","h","e"," ">> \o DayText(arg.n)
        IN IF arg.n >= 1 /\ arg.n <= DaysInMonth(y, m)
           THEN /\ ret.value.found
                /\ ret.value.text = matched
                /\ ret.value.date = <<y, m, arg.n>>
                /\ ret.value.date[3] = arg.n
                /\ NotBefore(ret.value.date, <<t.year, t.month, t.day>>)
           ELSE ~ret.value.found \/ ret.value.text # matched

\* "the 5th" asked late in December gave the 5th of January of the next year
DayRolledIntoNextYear ==
    /\ lastOp = "extract_date"
    /\ arg.form = "the" /\ arg.weekday_name = <<>>
    /\ Calendar[today].month = 12
    /\ ret.value.found
    /\ ret.value.date = <<Calendar[today].year + 1, 1, arg.n>>

-----------------------------------------------------------------------------
(* Capture typing *)

\* C18: parse_capture gives every kept line one type: task when the line
\* matches a task pattern, otherwise idea when it matches an idea pattern,
\* otherwise note; a line matching both is a task.
TaskPatternFirst ==
    lastOp = "parse_capture" =>
        \A i \in 1..Len(ret.value) :
            LET low == Lower(ret.value[i].content)
            IN ret.value[i].type = IF TaskMatch(low) THEN "task"
                                   ELSE IF IdeaMatch(low) THEN "idea"
                                   ELSE "note"

-----------------------------------------------------------------------------
(* Signal extraction *)

\* the six signal categories with the kind of pattern each is filled from
SignalKinds ==
    [actions_for_me |-> "action_for_me", decisions |-> "decision",
     commitments |-> "commitment", follow_ups |-> "follow_up",
     deadlines |-> "deadline", blockers |-> "blocker"]

\* the trimmed captures of the patterns of one category in the text given
TrimmedCaptures(key) == Range(Captures(SignalKinds[key], Lower(arg.text)))

\* C17 as stated: each of the six categories returned by extract_signals is
\* duplicate-free and holds exactly the trimmed captures of 5 characters or
\* more.
SignalsOfFiveOrMore ==
    lastOp = "extract_signals" =>
        \A key \in DOMAIN SignalKinds :
            /\ NoDuplicates(ret.value[key])
            /\ Range(ret.value[key]) = {c \in TrimmedCaptures(key) : Len(c) >= 5}

\* C17: each of the six categories returned by extract_signals is
\* duplicate-free; actions_for_me, decisions, commitments, follow_ups and
\* blockers hold exactly the trimmed captures longer than 5 characters, and
\* deadlines holds every trimmed capture that is not empty.
SignalsLongerThanFive ==
    lastOp = "extract_signals" =>
        \A key \in DOMAIN SignalKinds :
            /\ NoDuplicates(ret.value[key])
            /\ Range(ret.value[key]) =
                  {c \in TrimmedCaptures(key) :
                      IF key = "deadlines" THEN Len(c) >= 1 ELSE Len(c) > 5}

\* a commitment of exactly 5 characters was dropped while a deadline of 3
\* characters was kept
FiveDroppedShortDeadlineKept ==
    /\ lastOp = "extract_signals"
    /\ \E c \in TrimmedCaptures("commitments") : Len(c) = 5
    /\ ret.value.commitments = <<>>
    /\ \E i \in 1..Len(ret.value.deadlines) : Len(ret.value.deadlines[i]) = 3

\* C21: for a text that names a weekday and holds no "the <N>", the date
\* given falls on that weekday, 1 to 7 days after today: when today is that
\* weekday the date is today plus 7 days.
BareWeekdayWithinAWeek ==
    (lastOp = "extract_date" /\ arg.form = "bare") =>
        /\ ret.value.found
        /\ \E d \in (today + 1)..(today + 7) :
              /\ ret.value.date = <<Calendar[d].year, Calendar[d].month, Calendar[d].day>>
              /\ weekdays[Weekday(d) + 1] = arg.weekday_name
              /\ weekdays[Weekday(today) + 1] = arg.weekday_name => d = today + 7

\* "on sunday" asked on a Sunday gave the Sunday a week later
SameWeekdayGaveNextWeek ==
    /\ lastOp = "extract_date" /\ arg.form = "bare"
    /\ weekdays[Weekday(today) + 1] = arg.weekday_name
    /\ ret.value.found
    /\ ret.value.date = <<Calendar[today + 7].year, Calendar[today + 7].month,
                          Calendar[today + 7].day>>
-----------------------------------------------------------------------------
(* Properties of the entity store (Spec) *)

\* C22: every customer id that update_customer was ever called for is in the
\* entity store exactly once, its record has a name, and its last_contact is
\* the day of the latest call for that id, whatever the attributes of the call
UpdatedCustomersKept ==
    \A id \in DOMAIN contacted :
        LET at == {i \in 1..Len(entities.customers) : entities.customers[i].id = id}
        IN /\ Cardinality(at) = 1
           /\ \A i \in at :
                 /\ HasKey(entities.customers[i].rec, "name")
                 /\ HasKey(entities.customers[i].rec, "last_contact")
                 /\ entities.customers[i].rec["last_contact"] = contacted[id]

\* a customer created by one call and then updated by a call whose attributes
\* carry an older last_contact
UpdatedWithOwnLastContact ==
    /\ lastOp = "update_customer"
    /\ steps = 2
    /\ HasKey(arg.kwargs, "last_contact")
    /\ arg.kwargs["last_contact"] # today
    /\ arg.customer_id = <<"b","i","g","c","o">>
    /\ Len(entities.customers) = 2
    /\ entities.customers[2].rec["last_contact"] = today
    /\ entities.customers[2].rec["name"] = <<"b","i","g","c","o">>
-----------------------------------------------------------------------------
(* What process_meeting stores about the transcript (Spec) *)

\* C23: the signals of the record process_meeting stored hold every signal
\* that extract_signals yields for the transcript of the meeting
StoredSignalsIncludeExtracted ==
    (lastOp \in MeetingOps /\ ret.kind = "record") =>
        \E extracted \in extract_signals(arg.transcript,
                            [i \in 1..Len(entities.customers) |-> entities.customers[i].id]) :
            \A key \in DOMAIN extracted :
                Range(extracted[key]) \subseteq Range(Last(mem.meetings).signals[key])

\* C24 as stated: a person in the team_wellness of a stored meeting is
\* stressed or positive, or raised a blocker
WellnessOnlyNotable ==
    \A i \in 1..Len(GetList(mem, "meetings")) :
        HasKey(mem.meetings[i], "team_wellness") =>
            \A person \in DOMAIN mem.meetings[i].team_wellness :
                \/ mem.meetings[i].team_wellness[person].sentiment # "neutral"
                \/ mem.meetings[i].team_wellness[person].blockers # <<>>

\* C24: the team_wellness stored with a meeting holds every person of the
\* roster who is among the attendees or named in the first 500 characters of
\* the transcript, neutral or not; the key is missing when the transcript is
\* empty or names nobody of the roster
WellnessHoldsEveryoneFound ==
    (lastOp \in MeetingOps /\ ret.kind = "record") =>
        LET stored == Last(mem.meetings)
            named(person) ==
                \E n \in 1..Len(DIRECT_REPORTS[person]) :
                    \/ \E a \in 1..Len(arg.attendees) :
                          Lower(arg.attendees[a]) = DIRECT_REPORTS[person][n]
                    \/ Contains(DIRECT_REPORTS[person][n], FirstN(Lower(arg.transcript), 500))
            found == IF arg.transcript = <<>> THEN {}
                     ELSE {person \in DOMAIN DIRECT_REPORTS : named(person)}
        IN IF found = {} THEN ~HasKey(stored, "team_wellness")
           ELSE /\ HasKey(stored, "team_wellness")
                /\ DOMAIN stored.team_wellness = found
                /\ \A person \in found :
                      LET signals == stored.team_wellness[person]
                      IN signals.sentiment =
                            IF Len(signals.stress) > Len(signals.positive) + 2 THEN "stressed"
                            ELSE IF Len(signals.positive) > Len(signals.stress) + 2 THEN "positive"
                            ELSE "neutral"

\* a meeting was stored with a person of the roster who is neutral and raised
\* no blocker
NeutralMemberStored ==
    /\ lastOp \in MeetingOps
    /\ ret.kind = "record"
    /\ HasKey(Last(mem.meetings), "team_wellness")
    /\ \E person \in DOMAIN Last(mem.meetings).team_wellness :
          /\ Last(mem.meetings).team_wellness[person].sentiment = "neutral"
          /\ Last(mem.meetings).team_wellness[person].blockers = <<>>
-----------------------------------------------------------------------------
(* What each operation leaves alone (Spec) *)

\* C28: run one at a time, process_meeting changes only meetings and inbox,
\* process_capture only captures, update_memory only observations and inbox,
\* log_incident only incidents, log_decision only decisions, update_customer
\* only the entity store; get_my_inbox, summarize_week and
\* get_customer_context change neither the memory document nor the entities
OperationsKeepToTheirPart ==
    [][LET only(keys) ==
               /\ \A k \in (DOMAIN mem \cup DOMAIN mem') \ keys :
                     /\ k \in DOMAIN mem \cap DOMAIN mem'
                     /\ mem'[k] = mem[k]
               /\ entities' = entities
       IN /\ lastOp' \in MeetingOps => only({"meetings", "inbox"})
          /\ lastOp' = "process_capture" => only({"captures"})
          /\ lastOp' = "update_memory" => only({"observations", "inbox"})
          /\ lastOp' = "log_incident" => only({"incidents"})
          /\ lastOp' = "log_decision" => only({"decisions"})
          /\ lastOp' = "update_customer" => mem' = mem
          /\ lastOp' \in {"get_my_inbox", "summarize_week", "get_customer_context"} =>
                mem' = mem /\ entities' = entities]_vars

\* an incident was logged and then a capture stored: each is in its list and
\* the other lists are as they were at the start
IncidentThenCapture ==
    /\ lastOp = "process_capture"
    /\ steps = 2
    /\ mem # Unreadable
    /\ Len(mem.incidents) = 1
    /\ Len(GetList(mem, "captures")) = 1
    /\ mem.decisions = <<>>
    /\ GetList(mem, "inbox") = <<>>
    /\ GetList(mem, "meetings") = <<>>
-----------------------------------------------------------------------------
(* The bounded lists under interleaved calls (SpecConc) *)

\* C27: whatever the interleaving of the loads and saves of process_meeting,
\* process_capture, update_memory, log_incident and log_decision, the
\* document a process writes, and so the file, holds at most 50 meetings, 50
\* captures, 100 observations and 100 inbox entries
WrittenListsWithinBounds ==
    /\ lastSave.proc # "none" =>
          \A k \in BoundedKeys : Len(GetList(lastSave.data, k)) <= Kept(k)
    /\ \A p \in Procs :
          pc[p] = "loaded" =>
              \A k \in BoundedKeys : Len(GetList(loaded[p].doc, k)) <= Kept(k)
    /\ \A k \in BoundedKeys : Len(GetList(mem, k)) <= Kept(k)

\* log_incident wrote back the nearly full document it had loaded before the
\* receiver saved a meeting: the file is within the bounds, without the meeting
LogWroteOverAMeeting ==
    /\ lastSave.proc = "helper"
    /\ lastOp = "log_incident"
    /\ \E x \in lastSave.missed : x[1] = "meetings"
    /\ Len(GetList(mem, "meetings")) = MEETINGS_KEPT - 1
    /\ Len(mem.incidents) = 1
-----------------------------------------------------------------------------
(* shared_memory.load_memory and save_memory step by step: the file is      *)
(* opened with 'w', which empties it, json.dump writes into a buffer that   *)
(* reaches the disk one part at a time, and leaving the with block writes   *)
(* the rest. Another process may call load_memory between any two steps.    *)

\* json.dump(data, f): the text of the document as a sequence of tokens
json_dump(data) ==
    LET order == <<"incidents", "decisions", "customer_patterns", "meetings",
                   "captures", "observations", "inbox">>
        keys == SelectSeq(order, LAMBDA k : HasKey(data, k))
    IN <<[t |-> "{"]>>
       \o [i \in 1..Len(keys) |-> [t |-> "pair", key |-> keys[i], value |-> data[keys[i]]]]
       \o <<[t |-> "}"]>>

\* json.load(f): the document, or JSONDecodeError for a text that is empty
\* or stops before the closing brace
json_load(content) ==
    IF Len(content) >= 2 /\ content[1].t = "{" /\ content[Len(content)].t = "}"
    THEN LET pairs == SubSeq(content, 2, Len(content) - 1)
         IN [k \in {pairs[i].key : i \in 1..Len(pairs)} |->
                pairs[CHOOSE i \in 1..Len(pairs) : pairs[i].key = k].value]
    ELSE ReadError

InitFile ==
    /\ mem \in {BaseDoc, NearFullDoc}
    /\ disk = json_dump(mem)
    /\ saver = [state |-> "idle"]
    /\ SlackStart
    /\ today = 1
    /\ steps = 0
    /\ lastOp = "none"
    /\ arg = <<>>
    /\ ret = [kind |-> "none"]
    /\ taskReqs = <<>>
    /\ taskResults = <<>>
    /\ hist = [k \in BoundedKeys |-> <<>>]
    /\ meetings_store = <<>>
    /\ nGenerated = 0
    /\ pc = [p \in Procs |-> "idle"]
    /\ loaded = [p \in Procs |-> [doc |-> <<>>, call |-> NoCall]]
    /\ missed = [p \in Procs |-> {}]
    /\ lastSave = [proc |-> "none"]
    /\ entities = [customers |-> <<>>]
    /\ contacted = <<>>

\* what neither the steps of a save nor the Slack operations touch
restVars == <<today, taskReqs, taskResults, meetings_store, nGenerated, procVars,
              entities, contacted>>

\* save_memory line 22: open(MEMORY_FILE, 'w') of a process that loaded the
\* document and appended an incident or a decision to its copy
SaveOpens ==
    /\ steps < MaxSteps
    /\ saver.state = "idle"
    /\ json_load(disk) # ReadError
    /\ \E op \in {"log_incident", "log_decision"} :
          LET work == LogWork(op, today)
              data == WorkDoc(json_load(disk), work)
          IN /\ saver' = [state |-> "writing", before |-> json_load(disk), data |-> data,
                          pending |-> json_dump(data)]
             /\ arg' = work.arg
             /\ lastOp' = op
    /\ disk' = <<>>
    /\ steps' = steps + 1
    /\ UNCHANGED <<mem, ret, hist, restVars, slackVars>>

\* save_memory line 23: a part of the buffered text reaches the disk
SaveWrites ==
    /\ saver.state = "writing"
    /\ Len(saver.pending) > 1
    /\ disk' = Append(disk, Head(saver.pending))
    /\ saver' = [saver EXCEPT !.pending = Tail(@)]
    /\ UNCHANGED <<mem, steps, lastOp, arg, ret, hist, restVars, slackVars>>

\* the end of the with block of save_memory: the rest is written
SaveCloses ==
    /\ saver.state = "writing"
    /\ disk' = disk \o saver.pending
    /\ mem' = saver.data
    /\ saver' = [state |-> "idle"]
    /\ UNCHANGED <<steps, lastOp, arg, ret, hist, restVars, slackVars>>

\* load_memory() of another process, lines 16-17
LoadMemory ==
    /\ lastOp' = "load_memory"
    /\ arg' = <<>>
    /\ ret' = [kind |-> IF json_load(disk) = ReadError THEN "raised" ELSE "value",
               value |-> json_load(disk),
               saving |-> saver]
    /\ UNCHANGED <<mem, steps, disk, saver, hist, restVars, slackVars>>

NextFile ==
    \/ SaveOpens
    \/ SaveWrites
    \/ SaveCloses
    \/ LoadMemory

SpecFile == InitFile /\ [][NextFile]_vars

\* C29: a load_memory that runs while another process is inside save_memory
\* returns the whole document of before the save or the whole document of
\* after it
OverlappingLoadIsComplete ==
    (lastOp = "load_memory" /\ ret.saving.state = "writing") =>
        /\ ret.kind = "value"
        /\ ret.value \in {ret.saving.before, ret.saving.data}

-----------------------------------------------------------------------------
(* slack_listener.SlackListener.run_once and the help-center article pipeline *)

\* the most messages posted, run_once calls made and pipeline commands given
MaxMessages == 2

MaxScans == 2

MaxCommands == 2

\* MONITOR_CHANNELS.items(), in the order of the dict: of its sixteen
\* channels an ordinary one, the curated one and the article ideas one
MONITOR_CHANNELS ==
    <<[id |-> "C021RP67MTP", name |-> "product"],
      [id |-> "C0AFPAQ0KMF", name |-> "lucas-briefing"],
      [id |-> "C0AFK5PHE5Q", name |-> "help-center-ideas"]>>

ARTICLE_IDEAS_CHANNEL == "C0AFK5PHE5Q"

CURATED_CHANNEL == "C0AFPAQ0KMF"




\* SlackListener.extract_insights(text, channel_name), without the timestamp
extract_insights(text, channel_name) ==
    LET CUSTOMER_KEYWORDS ==
            <<[name |-> "acme", chars |-> <<"a","c","m","e">>],
              [name |-> "bigco", chars |-> <<"b","i","g","c","o">>]>>
    IN
        LET PROJECT_KEYWORDS ==
                <<[name |-> "truetour", chars |-> <<"t","r","u","e","t","o","u","r">>],
                  [name |-> "embed", chars |-> <<"e","m","b","e","d">>],
                  [name |-> "integration", chars |-> <<"i","n","t","e","g","r","a","t","i","o","n">>],
                  [name |-> "launch", chars |-> <<"l","a","u","n","c","h">>],
                  [name |-> "release", chars |-> <<"r","e","l","e","a","s","e">>],
                  [name |-> "beta", chars |-> <<"b","e","t","a">>],
                  [name |-> "pilot", chars |-> <<"p","i","l","o","t">>],
                  [name |-> "migration", chars |-> <<"m","i","g","r","a","t","i","o","n">>],
                  [name |-> "rollout", chars |-> <<"r","o","l","l","o","u","t">>]>>
        IN
                \* THEME_PATTERNS.items(): each pattern is an alternation of literal texts;
                \* the last alternative of "blocker", need.*before, is in extract_insights
            LET THEME_PATTERNS ==
                    <<[theme |-> "customer_issue",
                       alternatives |-> <<<<"i","s","s","u","e">>,
                                         <<"p","r","o","b","l","e","m">>,
                                         <<"b","u","g">>,
                                         <<"b","r","o","k","e","n">>,
                                         <<"n","o","t"," ","w","o","r","k","i","n","g">>,
                                         <<"e","r","r","o","r">>>>],
                      [theme |-> "feature_request",
                       alternatives |-> <<<<"w","o","u","l","d"," ","b","e"," ","n","i","c","e">>,
                                         <<"f","e","a","t","u","r","e"," ","r","e","q","u","e","s","t">>,
                                         <<"c","a","n"," ","w","e"," ","a","d","d">>,
                                         <<"s","h","o","u","l","d"," ","h","a","v","e">>>>],
                      [theme |-> "positive_feedback",
                       alternatives |-> <<<<"l","o","v","e">>,
                                         <<"g","r","e","a","t">>,
                                         <<"a","w","e","s","o","m","e">>,
                                         <<"e","x","c","i","t","e","d">>,
                                         <<"h","a","p","p","y">>>>],
                      [theme |-> "deadline",
                       alternatives |-> <<<<"d","e","a","d","l","i","n","e">>,
                                         <<"d","u","e">>,
                                         <<"b","y"," ","e","n","d"," ","o","f">>,
                                         <<"e","o","d">>,
                                         <<"e","o","w">>,
                                         <<"a","s","a","p">>>>],
                      [theme |-> "blocker",
                       alternatives |-> <<<<"b","l","o","c","k","e","d">>,
                                         <<"w","a","i","t","i","n","g"," ","o","n">>,
                                         <<"d","e","p","e","n","d","e","n","c","y">>>>]>>
            IN
                LET text_lower == Lower(text)
                    mentioned(keywords) ==
                        LET hit(i) == Contains(keywords[i].chars, text_lower)
                            found == SelectSeq([i \in 1..Len(keywords) |-> i], hit)
                        IN [k \in 1..Len(found) |-> keywords[found[k]].name]
                    need == <<"n","e","e","d">>
                    before == <<"b","e","f","o","r","e">>
                    at(word, i) == i + Len(word) - 1 <= Len(text_lower)
                                   /\ SubSeq(text_lower, i, i + Len(word) - 1) = word
                    \* re.search(r"need.*before", text_lower): "." is any character but "\n"
                    need_before ==
                        \E i \in 1..Len(text_lower) : \E j \in (i + Len(need))..Len(text_lower) :
                            /\ at(need, i)
                            /\ at(before, j)
                            /\ \A k \in (i + Len(need))..(j - 1) : text_lower[k] # "\n"
                    search(i) == \/ AnyIn(THEME_PATTERNS[i].alternatives, text_lower)
                                 \/ THEME_PATTERNS[i].theme = "blocker" /\ need_before
                    themes == SelectSeq([i \in 1..Len(THEME_PATTERNS) |-> i], search)
                IN [customers_mentioned |-> mentioned(CUSTOMER_KEYWORDS),
                    projects_mentioned |-> mentioned(PROJECT_KEYWORDS),
                    themes |-> [k \in 1..Len(themes) |-> THEME_PATTERNS[themes[k]].theme],
                    channel |-> channel_name]

\* what people post in the three channels
SlackPosts ==
    LET question == <<"H","o","w"," ","d","o"," ","I"," ","r","e","s","e","t"," ","m",
                      "y"," ","p","a","s","s","w","o","r","d","?">>
        article == <<"A","r","t","i","c","l","e",":"," ","b","e","t","a"," ","r","o",
                     "l","l","o","u","t"," ","c","h","e","c","k","l","i","s","t"," ",
                     "f","o","r"," ","n","e","w"," ","a","d","m","i","n","s",","," ",
                     "w","i","t","h"," ","s","c","r","e","e","n","s","h","o","t","s">>
        post(channel, text, bot_id, subtype) ==
            [channel |-> channel, text |-> text, bot_id |-> bot_id, subtype |-> subtype]
    IN {post(ARTICLE_IDEAS_CHANNEL, question, FALSE, "none"),
        post(ARTICLE_IDEAS_CHANNEL, article, FALSE, "none"),
        post("C021RP67MTP", article, FALSE, "none"),
        post(CURATED_CHANNEL, question, FALSE, "none")}

\* extract_insights(text, channel_name) of each text posted, for each channel
PostInsights ==
    [m \in {<<p.text, MONITOR_CHANNELS[k].name>> :
               p \in SlackPosts, k \in 1..Len(MONITOR_CHANNELS)} |->
        extract_insights(m[1], m[2])]

\* the timestamp Slack gives the next message
NextTs == 1 + Len(channels["C021RP67MTP"]) + Len(channels[CURATED_CHANNEL])
            + Len(channels[ARTICLE_IDEAS_CHANNEL])

\* somebody posts a top-level message; conversations_history lists the
\* newest message first
PostMessage ==
    /\ used.messages < MaxMessages
    /\ \E p \in SlackPosts :
          channels' = [channels EXCEPT ![p.channel] =
                          <<[ts |-> NextTs, text |-> p.text, bot_id |-> p.bot_id,
                             subtype |-> p.subtype, thread_ts |-> 0]>> \o @]
    /\ used' = [used EXCEPT !.messages = @ + 1]
    /\ UNCHANGED <<mem, steps, lastOp, arg, ret, hist, disk, saver, restVars,
                   processed_messages, listener, calls, folders, marked, articles>>

\* get_channel_history(channel_id, limit) when the API call succeeds
get_channel_history(channel_id, limit) == FirstN(channels[channel_id], limit)

\* the body of the loop of scan_channel without line 245, the
\* processed_messages.add
scan_message_unmarked(acc, msg, channel) ==
    LET is_curated == channel.id = CURATED_CHANNEL
        insights == PostInsights[<<msg.text, channel.name>>]
        stored(curated) ==
            [acc EXCEPT
                !.doc = ObservationDoc(@, insights, msg.text, curated,
                                       IF curated THEN parse_curated_message(msg.text, today)
                                       ELSE NotParsed,
                                       today, "none", "none"),
                !.calls = Append(@, [ts |-> msg.ts, channel |-> channel.name,
                                     bot_id |-> msg.bot_id, is_curated |-> curated]),
                !.new_insights = @ + 1]
    IN IF msg.ts \in acc.processed THEN [acc EXCEPT !.skipped = @ + 1]
       ELSE IF msg.bot_id THEN acc
       ELSE IF is_curated /\ Strip(msg.text) # <<>> THEN stored(TRUE)
       ELSE IF insights.customers_mentioned # <<>> \/ insights.projects_mentioned # <<>>
               \/ insights.themes # <<>>
            THEN stored(FALSE)
       ELSE acc

\* the body of the loop of scan_channel, lines 230-260, for one message: acc
\* holds processed_messages, the memory document, the update_memory calls
\* made, new_insights and the number of messages skipped at line 235
scan_message(acc, msg, channel) ==
    LET is_curated == channel.id = CURATED_CHANNEL
        insights == PostInsights[<<msg.text, channel.name>>]
        seen == [acc EXCEPT !.processed = @ \cup {msg.ts}]
        stored(curated) ==
            [seen EXCEPT
                !.doc = ObservationDoc(@, insights, msg.text, curated,
                                       IF curated THEN parse_curated_message(msg.text, today)
                                       ELSE NotParsed,
                                       today, "none", "none"),
                !.calls = Append(@, [ts |-> msg.ts, channel |-> channel.name,
                                     bot_id |-> msg.bot_id, is_curated |-> curated]),
                !.new_insights = @ + 1]
    IN IF msg.ts \in acc.processed THEN [acc EXCEPT !.skipped = @ + 1]
       ELSE IF msg.bot_id THEN acc
       ELSE IF is_curated /\ Strip(msg.text) # <<>> THEN stored(TRUE)
       ELSE IF insights.customers_mentioned # <<>> \/ insights.projects_mentioned # <<>>
               \/ insights.themes # <<>>
            THEN stored(FALSE)
       ELSE seen

\* the messages check_article_ideas_channel counts, lines 289-305: no two
\* messages of a history share a timestamp, so the add of line 305 never
\* changes what the loop does with a later message
new_submissions(messages, processed) ==
    LET joined == <<"h","a","s"," ","j","o","i","n","e","d"," ","t","h","e"," ","c","h",
                    "a","n","n","e","l">>
    IN {i \in 1..Len(messages) :
          LET msg == messages[i]
          IN /\ msg.ts \notin processed
             /\ ~msg.bot_id
             /\ msg.subtype \notin {"channel_join", "channel_leave"}
             /\ ~Contains(joined, msg.text)
             /\ ~(msg.thread_ts # 0 /\ msg.thread_ts # msg.ts)
             /\ Len(msg.text) >= 20}





\* the stage folders in the order article_exists and move_article search them
StageFolders == <<"inbox", "drafts", "review", "approved", "published">>

\* process_submissions() on the stage folders fs and the messages fetched,
\* of which those in `reacted` carry the memo reaction; mark_as_processed adds
\* the reaction unless the API refuses it. The messages it handles have
\* different ids, so each is handled as if it were the only one
process_submissions(fs, reacted, messages, reacts) ==
    LET \* generate_article_id(text, timestamp): the eight hex digits of the
        \* digest are taken to differ whenever the timestamp or the length of
        \* the text does
        generate_article_id(text, timestamp) == <<timestamp, Len(text)>>
        is_submission(message) ==
            LET joined == <<"h","a","s"," ","j","o","i","n","e","d"," ","t","h","e"," ","c","h",
                            "a","n","n","e","l">>
                left == <<"h","a","s"," ","l","e","f","t"," ","t","h","e"," ","c","h","a","n",
                          "n","e","l">>
            IN /\ ~message.bot_id
               /\ message.subtype \notin {"channel_join", "channel_leave", "channel_topic",
                                           "channel_purpose"}
               /\ ~Contains(joined, message.text)
               /\ ~Contains(left, message.text)
               /\ ~(message.thread_ts # 0 /\ message.thread_ts # message.ts)
               /\ Len(message.text) >= 20
        \* is info['problem'] of extract_submission_info(message) a non-empty
        \* text: re.search(r'(?:Problem|Question|Issue|About)[:\s]*([^\n]+)',
        \* text, re.I) takes the leftmost match and the longest run of [:\s]
        \* that leaves a character for the group; the group is then stripped
        problem_given(raw_text) ==
            LET lower == Lower(raw_text)
                words == <<<<"p","r","o","b","l","e","m">>,
                           <<"q","u","e","s","t","i","o","n">>,
                           <<"i","s","s","u","e">>,
                           <<"a","b","o","u","t">>>>
                at(w, i) == i + Len(words[w]) - 1 <= Len(lower)
                            /\ SubSeq(lower, i, i + Len(words[w]) - 1) = words[w]
                group(w, i, k) ==
                    /\ k > i + Len(words[w]) - 1
                    /\ raw_text[k] # "\n"
                    /\ \A j \in (i + Len(words[w]))..(k - 1) :
                          IsSpace(raw_text[j]) \/ raw_text[j] = ":"
                matches(i) == \E w \in 1..Len(words) : \E k \in 1..Len(raw_text) :
                                  at(w, i) /\ group(w, i, k)
            IN \E i \in 1..Len(raw_text) :
                  /\ matches(i)
                  /\ \A h \in 1..(i - 1) : ~matches(h)
                  /\ \E w \in 1..Len(words) : \E k \in 1..Len(raw_text) :
                        /\ at(w, i) /\ group(w, i, k)
                        /\ \A later \in (k + 1)..Len(raw_text) : ~group(w, i, later)
                        /\ ~IsSpace(raw_text[k])
        \* needs_clarification(info)[0]
        needs_clarification(raw_text) == Len(raw_text) < 50 /\ ~problem_given(raw_text)
        article_exists(article_id) ==
            \E k \in 1..Len(StageFolders) : article_id \in fs[StageFolders[k]]
        id(i) == generate_article_id(messages[i].text, messages[i].ts)
        new == {i \in 1..Len(messages) :
                  /\ messages[i].ts \notin reacted
                  /\ is_submission(messages[i])
                  /\ ~article_exists(id(i))}
        to_inbox == {id(i) : i \in {n \in new : needs_clarification(messages[n].text)}}
        to_drafts == {id(i) : i \in {n \in new : ~needs_clarification(messages[n].text)}}
    IN [folders |-> [fs EXCEPT !["inbox"] = (@ \cup to_inbox) \ to_drafts,
                               !["drafts"] = @ \cup to_drafts],
        marked |-> IF reacts THEN reacted \cup {messages[i].ts : i \in new} ELSE reacted,
        created |-> to_inbox \cup to_drafts,
        processed |-> Cardinality(new)]

\* a run of process_article_ideas.py without arguments: process_submissions
\* and, when it processed something, the summary post_summary posts
Pipeline(reacts) ==
    LET result == process_submissions(folders, marked,
                                      get_channel_history(ARTICLE_IDEAS_CHANNEL, 50), reacts)
        summary == [ts |-> NextTs, bot_id |-> TRUE, subtype |-> "bot_message",
                    thread_ts |-> 0,
                    text |-> <<"*","P","i","p","e","l","i","n","e"," ","U","p","d","a",
                              "t","e","*">>]
    IN /\ folders' = result.folders
       /\ marked' = result.marked
       /\ articles' = articles \cup result.created
       /\ channels' = IF result.processed > 0
                      THEN [channels EXCEPT ![ARTICLE_IDEAS_CHANNEL] = <<summary>> \o @]
                      ELSE channels

\* run_once, lines 315-321: scan_channel for every monitored channel, in
\* each of them scan_message for every message the history call returned.
\* The history calls of the channels in `down` end in SlackApiError and give
\* no messages: Slack answers for every channel or for none. update_memory
\* loads the document, appends the observation and saves
RunOnceScans ==
    LET RECURSIVE scan_channel(_, _, _)
        scan_channel(acc, channel, messages) ==
            IF messages = <<>> THEN acc
            ELSE scan_channel(scan_message(acc, Head(messages), channel), channel,
                              Tail(messages))
        RECURSIVE scan_channels(_, _, _)
        scan_channels(acc, k, down) ==
            IF k > Len(MONITOR_CHANNELS) THEN acc
            ELSE LET channel == MONITOR_CHANNELS[k]
                     messages == IF channel.id \in down THEN <<>>
                                 ELSE get_channel_history(channel.id, 50)
                 IN scan_channels(scan_channel(acc, channel, messages), k + 1, down)
    IN
    /\ used.scans < MaxScans
    /\ listener.state = "idle"
    /\ \E down \in {{}, {MONITOR_CHANNELS[k].id : k \in 1..Len(MONITOR_CHANNELS)}} :
          LET before == get_channel_history(ARTICLE_IDEAS_CHANNEL, 20)
              acc == scan_channels([processed |-> processed_messages,
                                    doc |-> load_memory(mem), calls |-> calls,
                                    new_insights |-> 0, skipped |-> 0], 1, down)
              made == Len(acc.calls) - Len(calls)
          IN /\ processed_messages' = acc.processed
             /\ mem' = save_memory(acc.doc, mem)
             /\ calls' = acc.calls
             /\ hist' = [hist EXCEPT !.observations =
                            IF made = 0 THEN @
                            ELSE @ \o LastN(GetList(acc.doc, "observations"), made)]
             /\ listener' = [state |-> "scanned", total |-> acc.new_insights,
                             skipped |-> acc.skipped, api_ok |-> down = {},
                             fresh |-> {before[i].ts :
                                          i \in new_submissions(before, processed_messages)}]
    /\ used' = [used EXCEPT !.scans = @ + 1]
    /\ UNCHANGED <<steps, lastOp, arg, ret, disk, saver, restVars, channels, folders,
                   marked, articles>>

\* run_once, lines 323-331: check_article_ideas_channel, which ends with 0
\* when anything in it raises, and trigger_article_pipeline, whose
\* subprocess may not run
RunOnceChecks ==
    /\ listener.state = "scanned"
    /\ \E failed \in BOOLEAN :
          LET messages == IF failed THEN <<>>
                          ELSE get_channel_history(ARTICLE_IDEAS_CHANNEL, 20)
              new == new_submissions(messages, processed_messages)
              article_count == Cardinality(new)
          IN /\ processed_messages' = processed_messages \cup {messages[i].ts : i \in new}
             /\ IF article_count > 0
                THEN \/ Pipeline(TRUE)
                     \/ UNCHANGED <<channels, folders, marked, articles>>
                ELSE UNCHANGED <<channels, folders, marked, articles>>
             /\ ret' = [kind |-> "value", value |-> listener.total,
                        article_count |-> article_count, triggered |-> article_count > 0,
                        fresh |-> listener.fresh, skipped |-> listener.skipped,
                        api_ok |-> listener.api_ok /\ ~failed]
    /\ lastOp' = "run_once"
    /\ arg' = <<>>
    /\ listener' = [state |-> "idle"]
    /\ UNCHANGED <<mem, steps, hist, disk, saver, restVars, calls, used>>

\* python3 process_article_ideas.py
ProcessSubmissions ==
    /\ used.commands < MaxCommands
    /\ \E reacts \in BOOLEAN : Pipeline(reacts)
    /\ used' = [used EXCEPT !.commands = @ + 1]
    /\ lastOp' = "process_submissions"
    /\ arg' = <<>>
    /\ ret' = [kind |-> "none"]
    /\ UNCHANGED <<mem, steps, hist, disk, saver, restVars, processed_messages, listener,
                   calls>>

\* move_article(article_id, to_folder): the file of the first folder that
\* has one is written under its name in the target folder (line 500) and
\* then unlinked (line 501)
move_article(fs, article_id, to_folder) ==
    LET found == {k \in 1..Len(StageFolders) : article_id \in fs[StageFolders[k]]}
    IN IF to_folder \notin {StageFolders[k] : k \in 1..Len(StageFolders)} \/ found = {}
       THEN [folders |-> fs, moved |-> FALSE]
       ELSE LET source == StageFolders[CHOOSE k \in found : \A h \in found : k <= h]
                written == [fs EXCEPT ![to_folder] = @ \cup {article_id}]
            IN [folders |-> [written EXCEPT ![source] = @ \ {article_id}],
                moved |-> TRUE]

\* python3 process_article_ideas.py move <id> <folder>
MoveArticle ==
    /\ used.commands < MaxCommands
    /\ \E article_id \in articles \cup {<<0, 0>>},
          to_folder \in {"drafts", "review", "published", "archive"} :
          /\ folders' = move_article(folders, article_id, to_folder).folders
          /\ ret' = [kind |-> "value",
                     value |-> move_article(folders, article_id, to_folder).moved]
          /\ arg' = [article_id |-> article_id, to_folder |-> to_folder]
    /\ used' = [used EXCEPT !.commands = @ + 1]
    /\ lastOp' = "move_article"
    /\ UNCHANGED <<mem, steps, hist, disk, saver, restVars, channels, processed_messages,
                   listener, calls, marked, articles>>

InitSlack ==
    /\ mem = BaseDoc
    /\ disk = json_dump(mem)
    /\ saver = [state |-> "idle"]
    /\ SlackStart
    /\ today = 1
    /\ steps = 0
    /\ lastOp = "none"
    /\ arg = <<>>
    /\ ret = [kind |-> "none"]
    /\ taskReqs = <<>>
    /\ taskResults = <<>>
    /\ hist = [k \in BoundedKeys |-> <<>>]
    /\ meetings_store = <<>>
    /\ nGenerated = 0
    /\ pc = [p \in Procs |-> "idle"]
    /\ loaded = [p \in Procs |-> [doc |-> <<>>, call |-> NoCall]]
    /\ missed = [p \in Procs |-> {}]
    /\ lastSave = [proc |-> "none"]
    /\ entities = [customers |-> <<>>]
    /\ contacted = <<>>

\* the listener at work while messages are posted
NextSlack ==
    \/ PostMessage
    \/ RunOnceScans
    \/ RunOnceChecks

SpecSlack == InitSlack /\ [][NextSlack]_vars

\* the pipeline run by hand while messages are posted
NextArticles ==
    \/ PostMessage
    \/ ProcessSubmissions
    \/ MoveArticle

SpecArticles == InitSlack /\ [][NextArticles]_vars

\* C25: a run_once whose API calls all succeeded counted every message of
\* help-center-ideas that was new when it started, came from a person, was no
\* thread reply and had 20 characters or more, and triggered the pipeline if
\* there was one, whatever scan_channel made of the message
NewIdeaCountedAndTriggers ==
    (lastOp = "run_once" /\ ret.api_ok) =>
        /\ ret.article_count >= Cardinality(ret.fresh)
        /\ ret.fresh # {} => ret.triggered

\* C30: no two update_memory calls of the listener are for the same message
\* timestamp, none is for a bot message, every message that led to a call is
\* in processed_messages, and there is one observation per call
OneCallPerTimestamp ==
    /\ \A i, j \in 1..Len(calls) : calls[i].ts = calls[j].ts => i = j
    /\ \A i \in 1..Len(calls) : ~calls[i].bot_id /\ calls[i].ts \in processed_messages
    /\ Len(GetList(mem, "observations")) = Len(calls)

\* a later run_once skipped a message that had led to a call before, with a
\* bot message in a channel it scanned
LaterScanSkippedTheMessage ==
    /\ lastOp = "run_once"
    /\ ret.skipped > 0
    /\ Len(calls) = 1
    /\ \E k \in 1..Len(MONITOR_CHANNELS) :
          \E i \in 1..Len(channels[MONITOR_CHANNELS[k].id]) :
              channels[MONITOR_CHANNELS[k].id][i].bot_id

\* C26: every article that was created has its file in exactly one of the
\* stage folders
EveryArticleInOneFolder ==
    \A article_id \in articles :
        Cardinality({k \in 1..Len(StageFolders) : article_id \in folders[StageFolders[k]]}) = 1

====
